---------------------------- MODULE Spec2Model ----------------------------
(***************************************************************************)
(* Model of the signal-analyzer core (csvProcessor: src/unnamed/part_000). *)
(*                                                                         *)
(* Numbers.  A JavaScript number is modelled as a pair <<n, d>>:           *)
(*   d > 0   the rational n/d in lowest terms (exact real arithmetic; the  *)
(*           rounding of IEEE-754 doubles and the sign of zero are not     *)
(*           modelled),                                                    *)
(*   <<1,0>> +Infinity,  <<-1,0>> -Infinity,  <<0,0>> NaN,                 *)
(*   <<0,-1>> the value `undefined` (a hole read from an array).           *)
(* Arrays are sequences; the source's 0-based index i is position i+1.     *)
(* A call that can throw returns [err, val]: err = "none" and the value,   *)
(* or the name of the exception and an empty value.                        *)
(*                                                                         *)
(* Where the source binds a local with const and uses it several times,    *)
(* the model passes the value as an operator parameter (a definition named *)
(* after the statement it continues from), so each value is computed once. *)
(***************************************************************************)
EXTENDS Integers, Sequences, FiniteSets, TLC

\* ------------------------------------------------------------------------
\* JavaScript numbers
\* ------------------------------------------------------------------------
NaN == <<0, 0>>
PInf == <<1, 0>>
NInf == <<-1, 0>>
Undefined == <<0, -1>>

IAbs(x) == IF x < 0 THEN -x ELSE x
Max(a, b) == IF a >= b THEN a ELSE b
Min(a, b) == IF a <= b THEN a ELSE b

RECURSIVE Gcd(_, _)
Gcd(a, b) == IF b = 0 THEN a ELSE Gcd(b, a % b)

\* n/d for n, d already divided by g, d made positive
Reduced(n, d, g) == IF d < 0 THEN <<(-n) \div g, (-d) \div g>> ELSE <<n \div g, d \div g>>

\* the rational n/d (d # 0) in lowest terms with a positive denominator
Norm(n, d) == Reduced(n, d, Gcd(IAbs(n), IAbs(d)))

Num(k) == <<k, 1>>
Zero == <<0, 1>>
One == <<1, 1>>

\* ToNumber: undefined becomes NaN
ToNum(x) == IF x[2] < 0 THEN NaN ELSE x

IsNaN(x) == x[2] < 0 \/ (x[1] = 0 /\ x[2] = 0)
IsFin(x) == x[2] > 0
Sgn(x) == IF x[1] > 0 THEN 1 ELSE IF x[1] < 0 THEN -1 ELSE 0

Neg(x) == IF IsNaN(x) THEN NaN ELSE <<-x[1], x[2]>>

\* a + b for finite a, b, with g the gcd of the denominators
AddFin(a, b, g) == Norm(a[1] * (b[2] \div g) + b[1] * (a[2] \div g), (a[2] \div g) * b[2])

Add(a, b) ==
    IF IsNaN(a) \/ IsNaN(b) THEN NaN
    ELSE IF a[2] = 0 /\ b[2] = 0 THEN (IF a = b THEN a ELSE NaN)
    ELSE IF a[2] = 0 THEN a
    ELSE IF b[2] = 0 THEN b
    ELSE AddFin(a, b, Gcd(a[2], b[2]))

Sub(a, b) == Add(a, Neg(b))

\* a * b for finite nonzero a, b, cross-reduced by g1 = gcd(a.n, b.d), g2 = gcd(b.n, a.d)
MulFin(a, b, g1, g2) ==
    <<(a[1] \div g1) * (b[1] \div g2), (a[2] \div g2) * (b[2] \div g1)>>

Mul(a, b) ==
    IF IsNaN(a) \/ IsNaN(b) THEN NaN
    ELSE IF a[2] = 0 \/ b[2] = 0
         THEN (IF a[1] = 0 \/ b[1] = 0 THEN NaN ELSE <<Sgn(a) * Sgn(b), 0>>)
    ELSE IF a[1] = 0 \/ b[1] = 0 THEN Zero
    ELSE MulFin(a, b, Gcd(IAbs(a[1]), b[2]), Gcd(IAbs(b[1]), a[2]))

Div(a, b) ==
    IF IsNaN(a) \/ IsNaN(b) THEN NaN
    ELSE IF a[2] = 0 /\ b[2] = 0 THEN NaN
    ELSE IF a[2] = 0 THEN <<Sgn(a) * (IF b[1] < 0 THEN -1 ELSE 1), 0>>
    ELSE IF b[2] = 0 THEN Zero
    ELSE IF b[1] = 0 THEN (IF a[1] = 0 THEN NaN ELSE <<Sgn(a), 0>>)
    ELSE IF b[1] < 0 THEN Mul(a, <<-b[2], -b[1]>>)
    ELSE Mul(a, <<b[2], b[1]>>)

\* a < b for finite a, b, with g the gcd of the denominators
LtFin(a, b, g) == a[1] * (b[2] \div g) < b[1] * (a[2] \div g)

\* a < b; false when either side is NaN
Lt(a, b) ==
    IF IsNaN(a) \/ IsNaN(b) THEN FALSE
    ELSE IF a[2] = 0 /\ b[2] = 0 THEN a[1] < b[1]
    ELSE IF a[2] = 0 THEN a[1] < 0
    ELSE IF b[2] = 0 THEN b[1] > 0
    ELSE LtFin(a, b, Gcd(a[2], b[2]))

Gt(a, b) == Lt(b, a)
Le(a, b) == ~IsNaN(a) /\ ~IsNaN(b) /\ ~Lt(b, a)
Ge(a, b) == Le(b, a)

\* Math.abs
Abs(x) == IF IsNaN(x) THEN NaN ELSE <<IAbs(x[1]), x[2]>>

\* Math.min / Math.max / Math.sign
MathMin(a, b) == IF IsNaN(a) \/ IsNaN(b) THEN NaN ELSE IF Lt(b, a) THEN b ELSE a
MathMax(a, b) == IF IsNaN(a) \/ IsNaN(b) THEN NaN ELSE IF Lt(a, b) THEN b ELSE a
MathSign(x) == IF IsNaN(x) THEN NaN ELSE Num(Sgn(x))

\* 0-based read of an array: an index out of range reads undefined
At(arr, i) == IF i >= 0 /\ i < Len(arr) THEN arr[i + 1] ELSE Undefined

\* i ** p for an integer base and an integer exponent p >= 0 (0 ** 0 is 1)
RECURSIVE IPow(_, _)
IPow(i, p) == IF p = 0 THEN 1 ELSE i * IPow(i, p - 1)

\* the sequence f with every element computed (a constructed array, not a view)
Arr(f) == f \o <<>>

Zeros(n) == Arr([i \in 1..n |-> Zero])

\* arr.reduce((s, v) => s + v, 0) over the first k elements
\* Op(a, b), with a and b computed first
Combine(Op(_, _), a, b) == CHOOSE r \in {Op(x, y) : x \in {a}, y \in {b}} : TRUE

RECURSIVE SumOver(_, _, _)
SumOver(arr, lo, hi) ==
    IF lo = hi THEN arr[lo]
    ELSE Combine(Add, SumOver(arr, lo, (lo + hi) \div 2), SumOver(arr, (lo + hi) \div 2 + 1, hi))

SumFirst(arr, k) == IF k = 0 THEN Zero ELSE Add(Zero, SumOver(arr, 1, k))

\* results of calls that can throw
Ok(v) == [err |-> "none", val |-> v]
Throw(e) == [err |-> e, val |-> <<>>]

\* ------------------------------------------------------------------------
\* Matrix utilities (a matrix is a sequence of rows)
\* ------------------------------------------------------------------------
\* M[0].map((_, i) => M.map(row => row[i])): reading M[0] of an empty matrix throws
transpose(M) ==
    IF Len(M) = 0 THEN Throw("TypeError")
    ELSE Ok(Arr([i \in 1..Len(M[1]) |-> Arr([r \in 1..Len(M) |-> M[r][i]])]))

\* C[i][j] += A[i][k] * B[k][j], accumulated for k = 0, 1, ... in this order
RECURSIVE DotAcc(_, _, _, _, _, _)
DotAcc(A, B, i, j, k, acc) ==
    IF k > Len(A[i]) THEN acc
    ELSE DotAcc(A, B, i, j, k + 1, Add(acc, Mul(A[i][k], B[k][j])))

\* A[0].length and B[0].length throw on an empty matrix
multiplyMatrices(A, B) ==
    IF Len(A) = 0 \/ Len(B) = 0 THEN Throw("TypeError")
    ELSE Ok(Arr([i \in 1..Len(A) |-> Arr([j \in 1..Len(B[1]) |-> DotAcc(A, B, i, j, 1, Zero)])]))

\* Math.abs(v) < 1e-15.  Every finite value of the model has a denominator
\* below 2^31 < 10^15, so its magnitude is below 1e-15 exactly when it is 0.
BelowPivotEps(v) == IsFin(v) /\ v[1] = 0

\* the row k >= i with the first maximal |A[k][i]| (strict > keeps the earliest)
RECURSIVE MaxRowFrom(_, _, _, _)
MaxRowFrom(A, i, k, maxRow) ==
    IF k > Len(A) THEN maxRow
    ELSE MaxRowFrom(A, i, k + 1,
                    IF Gt(Abs(A[k][i]), Abs(A[maxRow][i])) THEN k ELSE maxRow)

\* [A[i], A[maxRow]] = [A[maxRow], A[i]]
SwapRows(A, i, maxRow) ==
    Arr([r \in 1..Len(A) |-> IF r = i THEN A[maxRow] ELSE IF r = maxRow THEN A[i] ELSE A[r]])

\* for (j < 2n) A[i][j] /= diag
ScaleRow(row, diag) == Arr([j \in 1..Len(row) |-> Div(row[j], diag)])

\* for (k # i) A[k][j] -= A[k][i] * A[i][j], with rowI the scaled row i
EliminateWith(S, i, rowI) ==
    Arr([k \in 1..Len(S) |->
            IF k = i THEN rowI
            ELSE Arr([j \in 1..Len(S[k]) |-> Sub(S[k][j], Mul(S[k][i], rowI[j]))])])

Eliminate(S, i) == EliminateWith(S, i, ScaleRow(S[i], S[i][i]))

\* one pass of the outer loop of invertMatrix, maxRow being the pivot row found
PivotStep(A, i, maxRow) ==
    IF BelowPivotEps(A[maxRow][i]) THEN Throw("Matrix degenerate")
    ELSE Ok(Eliminate(SwapRows(A, i, maxRow), i))

GaussStep(A, i) == PivotStep(A, i, MaxRowFrom(A, i, i + 1, i))

RECURSIVE GaussJordan(_, _)
RECURSIVE GaussNext(_, _)
GaussNext(s, i) == IF s.err # "none" THEN s ELSE GaussJordan(s.val, i + 1)
GaussJordan(A, i) == IF i > Len(A) THEN Ok(A) ELSE GaussNext(GaussStep(A, i), i)

\* m.map((row, i) => row.concat(identity row i))
Augment(m) ==
    Arr([i \in 1..Len(m) |-> Arr([j \in 1..(2 * Len(m)) |->
            IF j <= Len(m) THEN m[i][j] ELSE IF j - Len(m) = i THEN One ELSE Zero])])

\* A.map(row => row.slice(n))
RightHalf(r, n) ==
    IF r.err # "none" THEN r
    ELSE Ok(Arr([i \in 1..n |-> Arr([j \in 1..n |-> r.val[i][j + n]])]))

invertMatrix(m) == RightHalf(GaussJordan(Augment(m), 1), Len(m))

\* ------------------------------------------------------------------------
\* Savitzky-Golay filter
\* ------------------------------------------------------------------------
\* the rows i = -half..half and the columns p = 0..polyOrder of A, entry i ** p
DesignMatrix(half, polyOrder) ==
    Arr([r \in 1..(2 * half + 1) |->
            Arr([c \in 1..(polyOrder + 1) |-> Num(IPow(r - 1 - half, c - 1))])])

\* ATAinvAT = multiplyMatrices(invATA, AT)
WithInvATA(AT, invATA) ==
    IF invATA.err # "none" THEN invATA ELSE multiplyMatrices(invATA.val, AT)

\* invATA = invertMatrix(ATA)
WithATA(AT, ATA) ==
    IF ATA.err # "none" THEN ATA ELSE WithInvATA(AT, invertMatrix(ATA.val))

\* ATA = multiplyMatrices(AT, A)
WithAT(A, AT) ==
    IF AT.err # "none" THEN AT ELSE WithATA(AT.val, multiplyMatrices(AT.val, A))

\* (AtA)^-1 At for the design matrix A, or the exception met on the way:
\* "Matrix degenerate" comes from invertMatrix (the one call inside try),
\* "TypeError" from the calls around it
PseudoInverseOf(A) == WithAT(A, transpose(A))

PseudoInverse(half, polyOrder) == PseudoInverseOf(DesignMatrix(half, polyOrder))

\* let idx = i + j; if (idx < 0) idx = 0; if (idx >= n) idx = n - 1;
ClampLowMirrored(idx) == IF idx < 0 THEN -idx ELSE idx
ClampLow(idx) == IF idx < 0 THEN 0 ELSE idx
ClampIdxNoUpper(idx, n) == ClampLow(idx)
ClampIdx(idx, n) == IF ClampLow(idx) >= n THEN n - 1 ELSE ClampLow(idx)

RECURSIVE ConvAccShort(_, _, _, _, _, _)
ConvAccShort(data, coeffs, half, i, j, acc) ==
    IF j >= half THEN acc
    ELSE ConvAccShort(data, coeffs, half, i, j + 1,
                      Add(acc, Mul(At(data, ClampIdx(i + j, Len(data))), At(coeffs, j + half))))

\* acc += data[idx] * coeffs[j + half] for j = -half..half
RECURSIVE ConvAcc(_, _, _, _, _, _)
ConvAcc(data, coeffs, half, i, j, acc) ==
    IF j > half THEN acc
    ELSE ConvAcc(data, coeffs, half, i, j + 1,
                 Add(acc, Mul(At(data, ClampIdx(i + j, Len(data))), At(coeffs, j + half))))

\* out[i] = acc for i = 0..n-1
Convolve(data, coeffs, half) ==
    Arr([i \in 1..Len(data) |-> ConvAcc(data, coeffs, half, i - 1, -half, Zero)])

\* the window and the order savitzkyGolay works with (integer arguments, so
\* Math.floor changes nothing)
NormWindow(windowSize) == IF Max(3, windowSize) % 2 = 0 THEN Max(3, windowSize) + 1 ELSE Max(3, windowSize)
NormOrder(windowSize, polyOrder) ==
    IF Max(1, polyOrder) >= NormWindow(windowSize) THEN NormWindow(windowSize) - 1
    ELSE Max(1, polyOrder)

\* try { invATA = ... } catch { return data.slice(); } and the convolution
SmoothWith(data, half, P) ==
    IF P.err = "Matrix degenerate" THEN Ok(data)
    ELSE IF P.err # "none" THEN P
    ELSE Ok(Convolve(data, P.val[1], half))

savitzkyGolay(data, windowSize, polyOrder) ==
    IF Len(data) = 0 THEN Ok(<<>>)
    ELSE SmoothWith(data, NormWindow(windowSize) \div 2,
                    PseudoInverse(NormWindow(windowSize) \div 2,
                                  NormOrder(windowSize, polyOrder)))

\* ------------------------------------------------------------------------
\* SG derivative
\* ------------------------------------------------------------------------
ScaleByProduct(arr, dtConst) == Arr([i \in 1..Len(arr) |-> Mul(arr[i], dtConst)])

\* derivative[i] = acc / dtConst
ScaleBy(arr, dtConst) == Arr([i \in 1..Len(arr) |-> Div(arr[i], dtConst)])

DeriveWithUncaught(t, signal, half, P) ==
    IF P.err # "none" THEN P
    ELSE IF Len(P.val) < 2 THEN Throw("TypeError")
    ELSE Ok(ScaleBy(Convolve(signal, P.val[2], half), Sub(At(t, 1), At(t, 0))))

\* catch { return new Array(n).fill(0); }; coeffsDeriv = ATAinvAT[1] is
\* undefined when the product has one row, and reading coeffsDeriv[j + half] throws
DeriveWith(t, signal, half, P) ==
    IF P.err = "Matrix degenerate" THEN Ok(Zeros(Len(signal)))
    ELSE IF P.err # "none" THEN P
    ELSE IF Len(P.val) < 2 THEN Throw("TypeError")
    ELSE Ok(ScaleBy(Convolve(signal, P.val[2], half), Sub(At(t, 1), At(t, 0))))

calculateDerivativeSG(t, signal, windowSize, polyOrder) ==
    IF Len(signal) < 3 THEN Ok(Zeros(Len(signal)))
    ELSE DeriveWith(t, signal, windowSize \div 2, PseudoInverse(windowSize \div 2, polyOrder))

\* ------------------------------------------------------------------------
\* Strings (String.prototype.trim, startsWith, split; the global parseFloat)
\* ------------------------------------------------------------------------
Ch(s, i) == SubSeq(s, i, i)
From(s, i) == SubSeq(s, i, Len(s))

IsSpace(c) == c \in {" ", "\t", "\r"}
IsDigit(c) == c \in {"0", "1", "2", "3", "4", "5", "6", "7", "8", "9"}
DigitVal(c) ==
    CASE c = "0" -> 0 [] c = "1" -> 1 [] c = "2" -> 2 [] c = "3" -> 3 [] c = "4" -> 4
      [] c = "5" -> 5 [] c = "6" -> 6 [] c = "7" -> 7 [] c = "8" -> 8 [] c = "9" -> 9

RECURSIVE TrimStart(_)
TrimStart(s) == IF Len(s) > 0 /\ IsSpace(Ch(s, 1)) THEN TrimStart(From(s, 2)) ELSE s
RECURSIVE TrimEnd(_)
TrimEnd(s) ==
    IF Len(s) > 0 /\ IsSpace(Ch(s, Len(s))) THEN TrimEnd(SubSeq(s, 1, Len(s) - 1)) ELSE s
Trim(s) == TrimEnd(TrimStart(s))

StartsWith(s, p) == Len(s) >= Len(p) /\ SubSeq(s, 1, Len(p)) = p

\* s.split(sep) for a one-character separator: always at least one piece
RECURSIVE SplitAcc(_, _, _, _)
SplitAcc(s, sep, cur, acc) ==
    IF Len(s) = 0 THEN Append(acc, cur)
    ELSE IF Ch(s, 1) = sep THEN SplitAcc(From(s, 2), sep, "", Append(acc, cur))
    ELSE SplitAcc(From(s, 2), sep, cur \o Ch(s, 1), acc)
Split(s, sep) == SplitAcc(s, sep, "", <<>>)

\* the count of digits s starts with
RECURSIVE DigitRun(_)
DigitRun(s) == IF Len(s) > 0 /\ IsDigit(Ch(s, 1)) THEN 1 + DigitRun(From(s, 2)) ELSE 0

\* the value of the first k characters of s, all digits
RECURSIVE DigitsValue(_, _, _)
DigitsValue(s, k, acc) ==
    IF k = 0 THEN acc ELSE DigitsValue(From(s, 2), k - 1, 10 * acc + DigitVal(Ch(s, 1)))

\* the exponent part at the head of s: "e" or "E", an optional sign, digits;
\* 0 when s does not start with a complete exponent part
ExpDigits(d) == DigitsValue(d, DigitRun(d), 0)
ExpSigned(r) ==
    IF Len(r) > 0 /\ Ch(r, 1) = "-" THEN -ExpDigits(From(r, 2))
    ELSE IF Len(r) > 0 /\ Ch(r, 1) = "+" THEN ExpDigits(From(r, 2))
    ELSE ExpDigits(r)
ExponentOf(s) == IF Len(s) > 0 /\ Ch(s, 1) \in {"e", "E"} THEN ExpSigned(From(s, 2)) ELSE 0

ApplyExp(mant, e) ==
    IF e >= 0 THEN Mul(mant, Num(IPow(10, e))) ELSE Div(mant, Num(IPow(10, -e)))

\* nd digits were read into mant; rest follows them
ParseExp(nd, mant, rest) == IF nd = 0 THEN NaN ELSE ApplyExp(mant, ExponentOf(rest))

\* s starts with ni digits, then ".", then f, which starts with nf digits
ParseMant(s, ni, f, nf) ==
    ParseExp(ni + nf,
             Add(Num(DigitsValue(s, ni, 0)), Norm(DigitsValue(f, nf, 0), IPow(10, nf))),
             From(f, nf + 1))

\* s starts with ni digits and r follows them
ParseFrac(s, ni, r) ==
    IF Len(r) > 0 /\ Ch(r, 1) = "." THEN ParseMant(s, ni, From(r, 2), DigitRun(From(r, 2)))
    ELSE ParseExp(ni, Num(DigitsValue(s, ni, 0)), r)

ParseDigits(s, ni) == ParseFrac(s, ni, From(s, ni + 1))

ParseUnsigned(s) == IF StartsWith(s, "Infinity") THEN PInf ELSE ParseDigits(s, DigitRun(s))

ParseSigned(s) ==
    IF Len(s) > 0 /\ Ch(s, 1) = "-" THEN Neg(ParseUnsigned(From(s, 2)))
    ELSE IF Len(s) > 0 /\ Ch(s, 1) = "+" THEN ParseUnsigned(From(s, 2))
    ELSE ParseUnsigned(s)

\* parseFloat: leading white space is skipped, the longest prefix that is a
\* decimal literal (or Infinity) is converted, NaN when there is none
parseFloat(str) == ParseSigned(TrimStart(str))

\* ------------------------------------------------------------------------
\* Time.  The model measures time in nanoseconds: the time column of a text
\* is read as ns, and the source's time constants (given in seconds) are
\* converted: 100e-9 -> 100, derivativeWindowNs * 1e-9 -> derivativeWindowNs,
\* 1e-12 -> 1/1000, 1e-6 -> 1000.  Every use of time in the source is
\* homogeneous in the unit, so the change of unit alters no decision.
\* ------------------------------------------------------------------------
MinRootDistance == Num(100)
TinyDt == <<1, 1000>>
FallbackWindow == Num(1000)
NsToTime(ns) == Num(ns)

\* ------------------------------------------------------------------------
\* Baseline removal
\* ------------------------------------------------------------------------
SliceLenWhole(len, count) == len

\* the length of arr.slice(0, count)
SliceLen(len, count) == IF count < 0 THEN Max(len + count, 0) ELSE Min(count, len)

\* arr.map(v => v - avg)
SubtractAll(arr, avg) == Arr([i \in 1..Len(arr) |-> Sub(arr[i], avg)])

removeBaseline(arr, N) ==
    SubtractAll(arr, Div(SumFirst(arr, SliceLen(Len(arr), Min(Len(arr), N))),
                         Num(Min(Len(arr), N))))

\* ------------------------------------------------------------------------
\* Zero crossings and their de-duplication
\* ------------------------------------------------------------------------
\* tZ = x1 - y1 * (x2 - x1) / (y2 - y1)
ZeroTime(x1, x2, y1, y2) == Sub(x1, Div(Mul(y1, Sub(x2, x1)), Sub(y2, y1)))

\* the time pushed for the pair (i-1, i); i is the source's 0-based index
ZeroCrossingTime(t, y, i) == ZeroTime(At(t, i - 1), At(t, i), At(y, i - 1), At(y, i))

SignChangeOrZero(y, i) == Le(Mul(At(y, i - 1), At(y, i)), Zero)

\* y1 * y2 < 0
SignChange(y, i) == Lt(Mul(At(y, i - 1), At(y, i)), Zero)

RECURSIVE ZeroCrossingsFrom(_, _, _, _)
ZeroCrossingsFrom(t, y, i, acc) ==
    IF i >= Len(y) THEN acc
    ELSE ZeroCrossingsFrom(t, y, i + 1,
            IF SignChange(y, i)
            THEN [t0 |-> Append(acc.t0, ZeroCrossingTime(t, y, i)), y0 |-> Append(acc.y0, Zero)]
            ELSE acc)

findZeroCrossings(t, interf) == ZeroCrossingsFrom(t, interf, 1, [t0 |-> <<>>, y0 |-> <<>>])

RECURSIVE SweepFromFirst(_, _, _, _, _)
SweepFromFirst(outT, outY, minDistance, i, acc) ==
    IF i >= Len(outT) THEN acc
    ELSE SweepFromFirst(outT, outY, minDistance, i + 1,
            IF Ge(Sub(At(outT, i), acc.t[1]), minDistance)
            THEN [t |-> Append(acc.t, At(outT, i)), y |-> Append(acc.y, At(outY, i))]
            ELSE acc)

\* one left-to-right sweep: keep a point when it is at least minDistance after
\* the last kept point
RECURSIVE SweepFrom(_, _, _, _, _)
SweepFrom(outT, outY, minDistance, i, acc) ==
    IF i >= Len(outT) THEN acc
    ELSE SweepFrom(outT, outY, minDistance, i + 1,
            IF Ge(Sub(At(outT, i), acc.t[Len(acc.t)]), minDistance)
            THEN [t |-> Append(acc.t, At(outT, i)), y |-> Append(acc.y, At(outY, i))]
            ELSE acc)

RECURSIVE SweepPrevFrom(_, _, _, _, _)
SweepPrevFrom(outT, outY, minDistance, i, acc) ==
    IF i >= Len(outT) THEN acc
    ELSE SweepPrevFrom(outT, outY, minDistance, i + 1,
            IF Ge(Sub(At(outT, i), At(outT, i - 1)), minDistance)
            THEN [t |-> Append(acc.t, At(outT, i)), y |-> Append(acc.y, At(outY, i))]
            ELSE acc)

SweepPrev(outT, outY, minDistance) ==
    SweepPrevFrom(outT, outY, minDistance, 1, [t |-> <<At(outT, 0)>>, y |-> <<At(outY, 0)>>])

Sweep(outT, outY, minDistance) ==
    SweepFrom(outT, outY, minDistance, 1, [t |-> <<At(outT, 0)>>, y |-> <<At(outY, 0)>>])

MaxPasses == 10

\* the loop for (k = 0; k < 10; k++): passes counts the sweeps performed,
\* capped tells that the loop ended on k = 10 and not on the break
RECURSIVE FilterLoop(_, _, _, _)
RECURSIVE AfterSweep(_, _, _, _, _)
AfterSweep(outT, outY, minDistance, k, new) ==
    IF Len(new.t) = Len(outT) THEN [t |-> outT, y |-> outY, passes |-> k + 1, capped |-> FALSE]
    ELSE FilterLoop(new.t, new.y, minDistance, k + 1)
FilterLoop(outT, outY, minDistance, k) ==
    IF k >= MaxPasses THEN [t |-> outT, y |-> outY, passes |-> k, capped |-> TRUE]
    ELSE AfterSweep(outT, outY, minDistance, k, Sweep(outT, outY, minDistance))

Filtered(r) == [filteredT0 |-> r.t, filteredY0 |-> r.y]

RECURSIVE NeighbourSweep(_, _, _, _, _)
NeighbourSweep(t0, y0, minDistance, i, acc) ==
    IF i >= Len(t0) THEN acc
    ELSE NeighbourSweep(t0, y0, minDistance, i + 1,
            IF Ge(Sub(At(t0, i), At(t0, i - 1)), minDistance)
            THEN [filteredT0 |-> Append(acc.filteredT0, At(t0, i)),
                  filteredY0 |-> Append(acc.filteredY0, At(y0, i))]
            ELSE acc)

filterClosePointsNeighbours(t0, y0, minDistance) ==
    IF Len(t0) <= 1 THEN [filteredT0 |-> t0, filteredY0 |-> y0]
    ELSE NeighbourSweep(t0, y0, minDistance, 1,
                        [filteredT0 |-> <<At(t0, 0)>>, filteredY0 |-> <<At(y0, 0)>>])

filterClosePointsUnguarded(t0, y0, minDistance) ==
    Filtered(FilterLoop(t0, y0, minDistance, 0))
filterClosePoints(t0, y0, minDistance) ==
    IF Len(t0) <= 1 THEN [filteredT0 |-> t0, filteredY0 |-> y0]
    ELSE Filtered(FilterLoop(t0, y0, minDistance, 0))

\* ------------------------------------------------------------------------
\* Intersections of the two signals
\* ------------------------------------------------------------------------
NoCrossing == [found |-> FALSE, time |-> Zero, value |-> Zero]

PointAtNoOffset(t1, t2, a1, a2, b1, b2, ratio) ==
    [found |-> TRUE,
     time |-> Mul(ratio, Sub(t2, t1)),
     value |-> Div(Add(Add(a1, Mul(ratio, Sub(a2, a1))), Add(b1, Mul(ratio, Sub(b2, b1)))),
                   Num(2))]

\* time = t1 + ratio * (t2 - t1); value = the mean of the two interpolated signals
PointAt(t1, t2, a1, a2, b1, b2, ratio) ==
    [found |-> TRUE,
     time |-> Add(t1, Mul(ratio, Sub(t2, t1))),
     value |-> Div(Add(Add(a1, Mul(ratio, Sub(a2, a1))), Add(b1, Mul(ratio, Sub(b2, b1)))),
                   Num(2))]

BracketsInclusive(diffPrev, diffCurr) ==
    \/ Le(diffPrev, Zero) /\ Ge(diffCurr, Zero)
    \/ Ge(diffPrev, Zero) /\ Le(diffCurr, Zero)

\* (diffPrev <= 0 && diffCurr > 0) || (diffPrev >= 0 && diffCurr < 0)
Brackets(diffPrev, diffCurr) ==
    \/ Le(diffPrev, Zero) /\ Gt(diffCurr, Zero)
    \/ Ge(diffPrev, Zero) /\ Lt(diffCurr, Zero)

CrossingWith(t1, t2, a1, a2, b1, b2, diffPrev, diffCurr) ==
    IF Brackets(diffPrev, diffCurr)
    THEN PointAt(t1, t2, a1, a2, b1, b2, Div(Neg(diffPrev), Sub(diffCurr, diffPrev)))
    ELSE NoCrossing

CrossingOf(t1, t2, a1, a2, b1, b2) ==
    CrossingWith(t1, t2, a1, a2, b1, b2, Sub(a1, b1), Sub(a2, b2))

\* the candidate of the pair (i-1, i); i is the source's 0-based index
CrossingAt(t, tenz, interf, i) ==
    CrossingOf(At(t, i - 1), At(t, i), At(tenz, i - 1), At(tenz, i),
               At(interf, i - 1), At(interf, i))

PushIfInside(acc, c, yThreshold) ==
    IF c.found /\ Lt(Abs(c.value), yThreshold)
    THEN Append(acc, [time |-> c.time, value |-> c.value])
    ELSE acc

\* if (Math.abs(value) <= yThreshold) intersections.push({ time, value })
PushIfNear(acc, c, yThreshold) ==
    IF c.found /\ Le(Abs(c.value), yThreshold)
    THEN Append(acc, [time |-> c.time, value |-> c.value])
    ELSE acc

RECURSIVE IntersectionsFrom(_, _, _, _, _, _)
IntersectionsFrom(t, tenz, interf, yThreshold, i, acc) ==
    IF i >= Len(t) THEN acc
    ELSE IntersectionsFrom(t, tenz, interf, yThreshold, i + 1,
                           PushIfNear(acc, CrossingAt(t, tenz, interf, i), yThreshold))

\* the default yThreshold = 0.02
DefaultYThreshold == <<1, 50>>

findSignalIntersectionsAtZero(t, tenz, interf, yThreshold) ==
    IntersectionsFrom(t, tenz, interf, yThreshold, 1, <<>>)

\* ------------------------------------------------------------------------
\* Jump-edge detector
\* ------------------------------------------------------------------------
\* null, where the source holds an index or null
NoIndex == -1

\* slopes[i-1] = (signal[i] - signal[i-1]) / Math.max(t[i] - t[i-1], 1e-12)
Slopes(t, signal) ==
    Arr([i \in 1..(Len(signal) - 1) |->
            Div(Sub(At(signal, i), At(signal, i - 1)),
                MathMax(Sub(At(t, i), At(t, i - 1)), TinyDt))])

\* the first index of maximal |slope|, scanning from index 1 with strict >
RECURSIVE MaxSlopeIdx(_, _, _)
MaxSlopeIdx(slopes, i, maxIdx) ==
    IF i >= Len(slopes) THEN maxIdx
    ELSE MaxSlopeIdx(slopes, i + 1,
                     IF Gt(Abs(At(slopes, i)), Abs(At(slopes, maxIdx))) THEN i ELSE maxIdx)

RECURSIVE WalkBackBySign(_, _, _, _)
WalkBackBySign(slopes, slopeSign, startThreshold, startIdx) ==
    IF startIdx <= 0 THEN startIdx
    ELSE IF MathSign(At(slopes, startIdx - 1)) # slopeSign THEN startIdx
         ELSE WalkBackBySign(slopes, slopeSign, startThreshold, startIdx - 1)

\* while (startIdx > 0) { if (sign differs || magnitude below) break; startIdx -= 1 }
RECURSIVE WalkBack(_, _, _, _)
WalkBack(slopes, slopeSign, startThreshold, startIdx) ==
    IF startIdx <= 0 THEN startIdx
    ELSE IF \/ MathSign(At(slopes, startIdx - 1)) # slopeSign
            \/ Lt(Abs(At(slopes, startIdx - 1)), startThreshold)
         THEN startIdx
         ELSE WalkBack(slopes, slopeSign, startThreshold, startIdx - 1)

\* Math.sign(maxSlope) || 1
SlopeSign(maxSlope) ==
    IF MathSign(maxSlope) = NaN \/ MathSign(maxSlope) = Zero THEN One ELSE MathSign(maxSlope)

\* startThreshold = Math.abs(maxSlope) * 0.35
JumpFromMax(slopes, maxIdx) ==
    WalkBack(slopes, SlopeSign(At(slopes, maxIdx)),
             Mul(Abs(At(slopes, maxIdx)), <<7, 20>>), maxIdx)

JumpFromSlopes(slopes) ==
    IF Len(slopes) = 0 THEN NoIndex ELSE JumpFromMax(slopes, MaxSlopeIdx(slopes, 1, 0))

findJumpByDerivative(t, signal) == JumpFromSlopes(Slopes(t, signal))

\* smoothSignal.reduce((min, v) => Math.min(min, v), baseline)
\* Math.min is associative and commutative, so the fold is taken by halves
RECURSIVE MinOver(_, _, _)
MinOver(arr, lo, hi) ==
    IF lo = hi THEN arr[lo]
    ELSE Combine(MathMin, MinOver(arr, lo, (lo + hi) \div 2),
                 MinOver(arr, (lo + hi) \div 2 + 1, hi))

MinFrom(arr, k, acc) == IF k > Len(arr) THEN acc ELSE MathMin(acc, MinOver(arr, k, Len(arr)))

\* the first index i >= i0 with arr[i] <= threshold, NoIndex when none
RECURSIVE FirstIn(_, _, _, _)
RECURSIVE FirstElse(_, _, _, _, _)
\* the first index in lo..hi with arr[i] <= threshold: the lower half is
\* scanned first, the upper half only when the lower half has none
FirstIn(arr, threshold, lo, hi) ==
    IF lo > hi THEN NoIndex
    ELSE IF lo = hi THEN (IF Le(At(arr, lo), threshold) THEN lo ELSE NoIndex)
    ELSE FirstElse(FirstIn(arr, threshold, lo, (lo + hi) \div 2),
                   arr, threshold, (lo + hi) \div 2 + 1, hi)
FirstElse(found, arr, threshold, lo, hi) ==
    IF found # NoIndex THEN found ELSE FirstIn(arr, threshold, lo, hi)

FirstAtOrBelow(arr, threshold, i) == FirstIn(arr, threshold, i, Len(arr) - 1)

JumpWindow == 11
JumpOrder == 2
MinHeadCount == 20
MinWindowSamples == 20

\* smoothSignal = savitzkyGolay(signal, 11, 2)
JumpSmooth(signal) == savitzkyGolay(signal, JumpWindow, JumpOrder).val

\* headCount = Math.max(20, Math.floor(n * 0.05))
HeadCount(n) == Max(MinHeadCount, (n * 5) \div 100)

\* baseline = smoothSignal.slice(0, headCount).reduce(sum) / headCount
Baseline(smoothSignal) ==
    Div(SumFirst(smoothSignal, Min(HeadCount(Len(smoothSignal)), Len(smoothSignal))),
        Num(HeadCount(Len(smoothSignal))))

\* amplitude = baseline - minVal
Amplitude(smoothSignal, baseline) == Sub(baseline, MinFrom(smoothSignal, 1, baseline))

ThresholdIdxAtMinimum(smoothSignal, baseline, amplitude) ==
    IF Gt(amplitude, Zero)
    THEN FirstAtOrBelow(smoothSignal, Sub(baseline, amplitude), 0)
    ELSE NoIndex

ThresholdIdxAtHalf(smoothSignal, baseline, amplitude) ==
    IF Gt(amplitude, Zero)
    THEN FirstAtOrBelow(smoothSignal, Sub(baseline, Mul(amplitude, <<1, 2>>)), 0)
    ELSE NoIndex

\* the index the threshold scan sets, NoIndex when it sets none
ThresholdIdx(smoothSignal, baseline, amplitude) ==
    IF Gt(amplitude, Zero)
    THEN FirstAtOrBelow(smoothSignal, Sub(baseline, Mul(amplitude, <<3, 20>>)), 0)
    ELSE NoIndex

\* if (startIdx === null) startIdx = findJumpByDerivative(t, smoothSignal)
StartIdxOr(t, smoothSignal, byThreshold) ==
    IF byThreshold # NoIndex THEN byThreshold ELSE findJumpByDerivative(t, smoothSignal)

StartIdxWith(t, smoothSignal, baseline) ==
    StartIdxOr(t, smoothSignal,
               ThresholdIdx(smoothSignal, baseline, Amplitude(smoothSignal, baseline)))

JumpStartIdx(t, smoothSignal) == StartIdxWith(t, smoothSignal, Baseline(smoothSignal))

NoFocus == [found |-> FALSE, time |-> Zero, window |-> Zero]

\* windowSamples = Math.max(20, Math.floor(signal.length * 0.02))
WindowSamplesFixed(n) == MinWindowSamples

WindowSamples(n) == Max(MinWindowSamples, (n * 2) \div 100)

\* window = t[rightIdx] - t[leftIdx] > 0 ? t[rightIdx] - t[leftIdx] : 1e-6
FocusWith(t, startIdx, span) ==
    [found |-> TRUE, time |-> At(t, startIdx),
     window |-> IF Gt(span, Zero) THEN span ELSE FallbackWindow]

FocusAt(t, n, startIdx) ==
    IF startIdx = NoIndex THEN NoFocus
    ELSE FocusWith(t, startIdx,
                   Sub(At(t, Min(n - 1, startIdx + WindowSamples(n))),
                       At(t, Max(0, startIdx - WindowSamples(n)))))

findLargestJumpStart(t, signal) ==
    IF Len(t) < 3 \/ Len(t) # Len(signal) THEN NoFocus
    ELSE FocusAt(t, Len(signal), JumpStartIdx(t, JumpSmooth(signal)))

\* ------------------------------------------------------------------------
\* parseCSV: options, rows, and the processing after the row loop
\* ------------------------------------------------------------------------
DefaultSgWindow == 31
DefaultSgPoly == 3
DefaultBaselineN == 2000
DefaultSkipStart == 6650
DefaultSkipEnd == 27000
DefaultDerivativeWindowNs == 200

\* options.k || d: an absent key reads undefined, undefined and 0 are falsy
OrDefault(options, k, d) ==
    IF k \in DOMAIN options /\ options[k] # 0 THEN options[k] ELSE d

sgWindowOf(options) == OrDefault(options, "sgWindow", DefaultSgWindow)
sgPolyOf(options) == OrDefault(options, "sgPoly", DefaultSgPoly)
baselineNOf(options) == OrDefault(options, "baselineN", DefaultBaselineN)
skipStartOf(options) == OrDefault(options, "skipStart", DefaultSkipStart)
skipEndOf(options) == OrDefault(options, "skipEnd", DefaultSkipEnd)
derivativeWindowNsOf(options) ==
    OrDefault(options, "derivativeWindowNs", DefaultDerivativeWindowNs)

HeaderPrefix == "TIME,CH1,"

\* fields.length >= 5 and none of parseFloat(fields[0]), [1], [3] is NaN
RowAccepted(fields) ==
    /\ Len(fields) >= 5
    /\ ~IsNaN(parseFloat(fields[1]))
    /\ ~IsNaN(parseFloat(fields[2]))
    /\ ~IsNaN(parseFloat(fields[4]))

\* ch1 * 0.00132 * 1.25 and ch3 + 0.04
ScaleTenz(ch1) == Mul(Mul(ch1, <<33, 25000>>), <<5, 4>>)
ShiftInterf(ch3) == Add(ch3, <<1, 25>>)

\* mask[i]: t[i] lies in [center - w, center + w] for some kept root
InRootWindow(ti, roots, w) ==
    \E k \in 1..Len(roots) : Ge(ti, Sub(roots[k], w)) /\ Le(ti, Add(roots[k], w))

\* idxMap: the 0-based indices i with mask[i], ascending
RECURSIVE IdxMapFrom(_, _, _, _, _)
IdxMapFrom(t, roots, w, i, acc) ==
    IF i >= Len(t) THEN acc
    ELSE IdxMapFrom(t, roots, w, i + 1,
                    IF InRootWindow(At(t, i), roots, w) THEN Append(acc, i) ELSE acc)

\* tForDeriv, interfForDeriv: the samples at the indices of idxMap
Gather(arr, idxMap) == Arr([k \in 1..Len(idxMap) |-> At(arr, idxMap[k])])

ScatterSelected(n, idxMap, dudt_local) == Arr([k \in 1..Len(idxMap) |-> At(dudt_local, k - 1)])

\* dudt_interf[idxMap[k]] = dudt_local[k] on an array of zeros
Scatter(n, idxMap, dudt_local) ==
    Arr([i \in 1..n |->
            IF \E k \in 1..Len(idxMap) : idxMap[k] = i - 1
            THEN At(dudt_local, (CHOOSE k \in 1..Len(idxMap) : idxMap[k] = i - 1) - 1)
            ELSE Zero])

\* dudt_local = tForDeriv.length > 3 ? calculateDerivativeSG(...) : []
LocalDerivative(tForDeriv, interfForDeriv, options) ==
    IF Len(tForDeriv) > 3
    THEN calculateDerivativeSG(tForDeriv, interfForDeriv, sgWindowOf(options), sgPolyOf(options))
    ELSE Ok(<<>>)

EmptyResult ==
    [interfSmoothed |-> <<>>, interfCorrected |-> <<>>, t0 |-> <<>>, y0 |-> <<>>,
     idxMap |-> <<>>, dudt_interf |-> <<>>, intersectionPoints |-> <<>>]

Thrown(e) == [err |-> e, val |-> EmptyResult]

\* the object parseCSV returns (idxMap is kept beside it)
AfterDerivative(t, tenz, interfSmoothed, interfCorrected, f, idxMap, dudt_local) ==
    IF dudt_local.err # "none" THEN Thrown(dudt_local.err)
    ELSE Ok([interfSmoothed |-> interfSmoothed,
             interfCorrected |-> interfCorrected,
             t0 |-> f.filteredT0,
             y0 |-> f.filteredY0,
             idxMap |-> idxMap,
             dudt_interf |-> Scatter(Len(t), idxMap, dudt_local.val),
             intersectionPoints |->
                 findSignalIntersectionsAtZero(t, tenz, interfCorrected, DefaultYThreshold)])

AfterMask(t, tenz, options, interfSmoothed, interfCorrected, f, idxMap) ==
    AfterDerivative(t, tenz, interfSmoothed, interfCorrected, f, idxMap,
                    LocalDerivative(Gather(t, idxMap), Gather(interfCorrected, idxMap), options))

AfterRoots(t, tenz, options, interfSmoothed, interfCorrected, f) ==
    AfterMask(t, tenz, options, interfSmoothed, interfCorrected, f,
              IdxMapFrom(t, f.filteredT0, NsToTime(derivativeWindowNsOf(options)), 0, <<>>))

FilterRoots(zc) == filterClosePoints(zc.t0, zc.y0, MinRootDistance)

AfterBaseline(t, tenz, options, interfSmoothed, interfCorrected) ==
    AfterRoots(t, tenz, options, interfSmoothed, interfCorrected,
               FilterRoots(findZeroCrossings(t, interfCorrected)))

AfterSmooth(t, tenz, options, sm) ==
    IF sm.err # "none" THEN Thrown(sm.err)
    ELSE AfterBaseline(t, tenz, options, sm.val, removeBaseline(sm.val, baselineNOf(options)))

\* lines 180-231 of parseCSV on the parsed traces
ProcessTraces(t, tenz, interf, options) ==
    AfterSmooth(t, tenz, options,
                savitzkyGolay(interf, sgWindowOf(options), sgPolyOf(options)))

\* ------------------------------------------------------------------------
\* generateChartData
\* ------------------------------------------------------------------------
\* maxPoints = options.maxPoints || 2000, with no maxPoints handed over
DefaultMaxPoints == 2000

\* step = Math.max(1, Math.floor(t.length / maxPoints))
StepOf(n) == Max(1, n \div DefaultMaxPoints)

\* for (let i = 0; i < t.length; i += step) l.push(arr[i])
Decimate(arr, n, step) ==
    Arr([k \in 1..((n + step - 1) \div step) |-> At(arr, (k - 1) * step)])

\* while (idx < t.length - 1 && t[idx] < ptTime) idx++
RECURSIVE AdvanceIdx(_, _, _)
AdvanceIdx(t, idx, ptTime) ==
    IF idx < Len(t) - 1 /\ Lt(At(t, idx), ptTime) THEN AdvanceIdx(t, idx + 1, ptTime) ELSE idx

\* dudt_interf[idx] ?? 0
OrZero(v) == IF v = Undefined THEN Zero ELSE v

\* if (k > 0) disp += 0.5 * (v + lastVel) * dt
NextDisp(k, disp, v, lastVel, ptTime, lastTime) ==
    IF k > 0 THEN Add(disp, Mul(Mul(<<1, 2>>, Add(v, lastVel)), Sub(ptTime, lastTime)))
    ELSE disp

NoSeries == [velocitySeries |-> <<>>, displacementSeries |-> <<>>]

PushSeries(acc, ptTime, v, disp) ==
    [velocitySeries |-> Append(acc.velocitySeries, [time |-> ptTime, value |-> v]),
     displacementSeries |-> Append(acc.displacementSeries, [time |-> ptTime, value |-> disp])]

\* the loop over the intersection points; k is the source's 0-based index
RECURSIVE SeriesFrom(_, _, _, _, _, _, _, _, _)
SeriesPush(t, dudt, pts, k, idx, v, disp, acc) ==
    SeriesFrom(t, dudt, pts, k + 1, idx, pts[k + 1].time, v, disp,
               PushSeries(acc, pts[k + 1].time, v, disp))

SeriesWith(t, dudt, pts, k, idx, v, lastTime, lastVel, disp, acc) ==
    SeriesPush(t, dudt, pts, k, idx, v,
               NextDisp(k, disp, v, lastVel, pts[k + 1].time, lastTime), acc)

SeriesAt(t, dudt, pts, k, idx, lastTime, lastVel, disp, acc) ==
    SeriesWith(t, dudt, pts, k, idx, OrZero(At(dudt, idx)), lastTime, lastVel, disp, acc)

SeriesFrom(t, dudt, pts, k, idx, lastTime, lastVel, disp, acc) ==
    IF k >= Len(pts) THEN acc
    ELSE SeriesAt(t, dudt, pts, k, AdvanceIdx(t, idx, pts[k + 1].time),
                  lastTime, lastVel, disp, acc)

\* velocitySeries and displacementSeries
SeriesOf(t, dudt, pts) ==
    IF Len(pts) = 0 THEN NoSeries
    ELSE SeriesFrom(t, dudt, pts, 0, 0, pts[1].time, Zero, Zero, NoSeries)

\* the decimated series and the series at the intersection points
ChartWith(r, t, tenz, step, series) ==
    [lt |-> Decimate(t, Len(t), step),
     lten |-> Decimate(tenz, Len(t), step),
     lint |-> Decimate(r.interfCorrected, Len(t), step),
     lsm |-> Decimate(r.interfSmoothed, Len(t), step),
     lder |-> Decimate(r.dudt_interf, Len(t), step),
     intersections |-> r.intersectionPoints,
     velocitySeries |-> series.velocitySeries,
     displacementSeries |-> series.displacementSeries]

generateChartData(r, t, tenz) ==
    ChartWith(r, t, tenz, StepOf(Len(t)), SeriesOf(t, r.dudt_interf, r.intersectionPoints))

NoChart ==
    [lt |-> <<>>, lten |-> <<>>, lint |-> <<>>, lsm |-> <<>>, lder |-> <<>>,
     intersections |-> <<>>, velocitySeries |-> <<>>, displacementSeries |-> <<>>]

\* ------------------------------------------------------------------------
\* The program: one run of parseCSV followed by generateChartData
\* ------------------------------------------------------------------------
VARIABLES
    options,      \* the options object handed to parseCSV
    lines,        \* the lines of csvText the row loop has visited, in order
    pc,           \* "parse" | "process" | "chart" | "done" | "raised" | "idle"
    dataStarted,  \* parseCSV: dataStarted
    lineCount,    \* parseCSV: lineCount
    t,            \* parseCSV: t
    tenz,         \* parseCSV: tenz
    interf,       \* parseCSV: interf
    result,       \* the series parseCSV returns beside t, tenz, interf
    error,        \* the exception parseCSV threw, "none" when it returned
    focus,        \* generateChartData: interfJumpCenter
    chart,        \* generateChartData: the series of chartData
    \* a direct call of the two filters (savitzkyGolay, calculateDerivativeSG)
    data,         \* the sequence handed to the filter
    tData,        \* the time sequence handed to calculateDerivativeSG
    windowSize,   \* the windowSize argument
    polyOrder,    \* the polyOrder argument
    smoothed,     \* what savitzkyGolay(data, windowSize, polyOrder) returned
    derivative,   \* what calculateDerivativeSG(tData, data, windowSize, polyOrder) returned
    \* a direct call of one of the other functions of the module
    call,         \* the function called and its arguments
    ret,          \* what it returned, one entry per call made
    \* the App component
    chartData,          \* useState(null): the chart data on display
    loading,            \* useState(false)
    errorText,          \* useState(""): the App's error
    sgWindow,           \* useState(31)
    sgPoly,             \* useState(3)
    applyingSmoothing,  \* useState(false)
    lastFileRef,        \* useRef(null): lastFileRef.current
    runs                \* the processCSVData promises that have not settled

parseVars == <<options, lines, pc, dataStarted, lineCount, t, tenz, interf, result, error, focus, chart>>
filterVars == <<data, tData, windowSize, polyOrder, smoothed, derivative>>
callVars == <<call, ret>>
appVars == <<chartData, loading, errorText, sgWindow, sgPoly, applyingSmoothing, lastFileRef, runs>>
vars == <<parseVars, filterVars, callVars, appVars>>

\* null, where the App holds a File or null
NoFile == "null"

\* null, where the App holds chart data or null
NoChartData == [file |-> NoFile, sgWindow |-> 0, sgPoly |-> 0]

InitialSgWindow == 31
InitialSgPoly == 3

\* the App after its first render
AppIdle ==
    /\ chartData = NoChartData
    /\ loading = FALSE
    /\ errorText = ""
    /\ sgWindow = InitialSgWindow
    /\ sgPoly = InitialSgPoly
    /\ applyingSmoothing = FALSE
    /\ lastFileRef = NoFile
    /\ runs = {}

\* a call that has not been made yet
Pending == [err |-> "pending", val |-> <<>>]

\* the arguments of a direct call: t the times, a and b the series, k the number
NoCall == [fn |-> "none", t |-> <<>>, a |-> <<>>, b |-> <<>>, k |-> Zero]

\* no direct call is in progress
FilterIdle ==
    /\ AppIdle
    /\ call = NoCall
    /\ ret = <<>>
    /\ data = <<>>
    /\ tData = <<>>
    /\ windowSize = 0
    /\ polyOrder = 0
    /\ smoothed = Pending
    /\ derivative = Pending

\* the longest text read by the row loop, in lines
MaxLines == 4

LineSamples ==
    { " ",
      "TIME,CH1,CH2,CH3,CH4",
      "10,2000,x,0.96,y",
      "20,1,0,2",
      "30,1,0,abc,0",
      "Infinity,0,0,1.96,0" }

SkipStarts == {0, 1, 2}
SkipEnds == {1, 2}

\* the options of a caller that sets the smoothing and leaves or sets the row window
ParseOptions ==
    {[sgWindow |-> 3, sgPoly |-> 1]}
        \cup {[sgWindow |-> 3, sgPoly |-> 1, skipStart |-> s, skipEnd |-> e] :
                s \in SkipStarts, e \in SkipEnds}

\* parseCSV is entered: nothing is read yet
ParseInit ==
    /\ lines = <<>>
    /\ pc = "parse"
    /\ dataStarted = FALSE
    /\ lineCount = 0
    /\ t = <<>>
    /\ tenz = <<>>
    /\ interf = <<>>
    /\ result = EmptyResult
    /\ error = "none"
    /\ focus = NoFocus
    /\ chart = NoChart

Init == options \in ParseOptions /\ ParseInit /\ FilterIdle

\* the loop visits the next line of the text
Visit(line) == pc = "parse" /\ Len(lines) < MaxLines /\ lines' = Append(lines, line)

IsBlank(line) == Trim(line) = ""
IsHeader(line) == StartsWith(Trim(line), HeaderPrefix)
IsRow(line) == ~IsBlank(line) /\ ~IsHeader(line)

\* lineCount < skipStart and lineCount > skipEnd, on the incremented count
BelowStartInclusive(count, opts) == count <= skipStartOf(opts)
BelowStart(count, opts) == count < skipStartOf(opts)
AboveEnd(count, opts) == count > skipEndOf(opts)

\* if (!line) continue;
ReadBlank ==
    \E line \in LineSamples :
        /\ Visit(line)
        /\ IsBlank(line)
        /\ UNCHANGED <<options, pc, dataStarted, lineCount, t, tenz, interf, result, error, focus, chart>>
        /\ UNCHANGED <<filterVars, callVars, appVars>>

\* if (line.startsWith("TIME,CH1,")) { dataStarted = true; continue; }
ReadHeader ==
    \E line \in LineSamples :
        /\ Visit(line)
        /\ ~IsBlank(line) /\ IsHeader(line)
        /\ dataStarted' = TRUE
        /\ UNCHANGED <<options, pc, lineCount, t, tenz, interf, result, error, focus, chart>>
        /\ UNCHANGED <<filterVars, callVars, appVars>>

\* if (!dataStarted) continue;
ReadBeforeHeader ==
    \E line \in LineSamples :
        /\ Visit(line)
        /\ IsRow(line) /\ ~dataStarted
        /\ UNCHANGED <<options, pc, dataStarted, lineCount, t, tenz, interf, result, error, focus, chart>>
        /\ UNCHANGED <<filterVars, callVars, appVars>>

\* lineCount++; if (lineCount < skipStart) continue;
SkipRow ==
    \E line \in LineSamples :
        /\ Visit(line)
        /\ IsRow(line) /\ dataStarted
        /\ BelowStart(lineCount + 1, options)
        /\ lineCount' = lineCount + 1
        /\ UNCHANGED <<options, pc, dataStarted, t, tenz, interf, result, error, focus, chart>>
        /\ UNCHANGED <<filterVars, callVars, appVars>>

\* lineCount++; if (lineCount > skipEnd) break;
BreakRow ==
    \E line \in LineSamples :
        /\ Visit(line)
        /\ IsRow(line) /\ dataStarted
        /\ ~BelowStart(lineCount + 1, options)
        /\ AboveEnd(lineCount + 1, options)
        /\ lineCount' = lineCount + 1
        /\ pc' = "process"
        /\ UNCHANGED <<options, dataStarted, t, tenz, interf, result, error, focus, chart>>
        /\ UNCHANGED <<filterVars, callVars, appVars>>

InRowWindow == ~BelowStart(lineCount + 1, options) /\ ~AboveEnd(lineCount + 1, options)

\* t.push(t0); tenz.push(ch1 * 0.00132 * 1.25); interf.push(ch3 + 0.04);
PushRow(fields) ==
    /\ t' = Append(t, parseFloat(fields[1]))
    /\ tenz' = Append(tenz, ScaleTenz(parseFloat(fields[2])))
    /\ interf' = Append(interf, ShiftInterf(parseFloat(fields[4])))

\* the row is split and pushed onto the three traces
AcceptRow ==
    \E line \in LineSamples :
        /\ Visit(line)
        /\ IsRow(line) /\ dataStarted /\ InRowWindow
        /\ RowAccepted(Split(Trim(line), ","))
        /\ lineCount' = lineCount + 1
        /\ PushRow(Split(Trim(line), ","))
        /\ UNCHANGED <<options, pc, dataStarted, result, error, focus, chart>>
        /\ UNCHANGED <<filterVars, callVars, appVars>>

\* the row fails fields.length >= 5 or one of the isNaN tests
RejectRow ==
    \E line \in LineSamples :
        /\ Visit(line)
        /\ IsRow(line) /\ dataStarted /\ InRowWindow
        /\ ~RowAccepted(Split(Trim(line), ","))
        /\ lineCount' = lineCount + 1
        /\ UNCHANGED <<options, pc, dataStarted, t, tenz, interf, result, error, focus, chart>>
        /\ UNCHANGED <<filterVars, callVars, appVars>>

\* i reaches lines.length
EndOfText ==
    /\ pc = "parse"
    /\ pc' = "process"
    /\ UNCHANGED <<options, lines, dataStarted, lineCount, t, tenz, interf, result, error, focus, chart>>
    /\ UNCHANGED <<filterVars, callVars, appVars>>

\* r is what lines 180-231 give: parseCSV returns it or throws
Finish(r) ==
    /\ result' = r.val
    /\ error' = r.err
    /\ pc' = IF r.err = "none" THEN "chart" ELSE "raised"

\* lines 180-231: the series are derived and parseCSV returns, or it throws
Process ==
    /\ pc = "process"
    /\ Finish(ProcessTraces(t, tenz, interf, options))
    /\ UNCHANGED <<options, lines, dataStarted, lineCount, t, tenz, interf, focus, chart>>
    /\ UNCHANGED <<filterVars, callVars, appVars>>

\* generateChartData: the series, and the focus point from
\* findLargestJumpStart(t, interfCorrected)
Chart ==
    /\ pc = "chart"
    /\ chart' = generateChartData(result, t, tenz)
    /\ focus' = findLargestJumpStart(t, result.interfCorrected)
    /\ pc' = "done"
    /\ UNCHANGED <<options, lines, dataStarted, lineCount, t, tenz, interf, result, error>>
    /\ UNCHANGED <<filterVars, callVars, appVars>>

Next ==
    \/ ReadBlank
    \/ ReadHeader
    \/ ReadBeforeHeader
    \/ SkipRow
    \/ BreakRow
    \/ AcceptRow
    \/ RejectRow
    \/ EndOfText
    \/ Process
    \/ Chart

Spec == Init /\ [][Next]_vars

\* ------------------------------------------------------------------------
\* The pipeline on parsed traces: parseCSV from line 180 on, entered with the
\* traces the row loop has built (the text is not kept here)
\* ------------------------------------------------------------------------
\* the most samples a trace holds
MaxSamples == 5

\* traces sampled every 50 ns
PipeTimes(n) == Arr([i \in 1..n |-> Num(50 * (i - 1))])
PipeLevels == {Num(-1), Num(1)}
PipeTenz(n) == {Zeros(n), Arr([i \in 1..n |-> Num(i - 2)])}

\* the smoothing settings a caller may hand over, valid or not
PipeWindows == {-1, 1, 2, 3, 4, 5}
PipeOrders == {-1, 1, 2, 3}
\* a half-width of one sample step handed over with a valid smoothing setting
PipeNarrow == {[sgWindow |-> 3, sgPoly |-> 1, derivativeWindowNs |-> 50]}
PipeOptions ==
    {[sgWindow |-> w, sgPoly |-> p] : w \in PipeWindows, p \in PipeOrders} \cup PipeNarrow

PipeInit ==
    /\ options \in PipeOptions
    /\ \E n \in 0..MaxSamples :
        /\ t = PipeTimes(n)
        /\ tenz \in PipeTenz(n)
        /\ interf \in {Arr(f) : f \in [1..n -> PipeLevels]}
        /\ lineCount = n
    /\ lines = <<>>
    /\ pc = "process"
    /\ dataStarted = TRUE
    /\ result = EmptyResult
    /\ error = "none"
    /\ focus = NoFocus
    /\ chart = NoChart
    /\ FilterIdle

PipeNext == Process \/ Chart

SpecPipeline == PipeInit /\ [][PipeNext]_vars

\* ------------------------------------------------------------------------
\* The two filters called directly
\* ------------------------------------------------------------------------
\* the longest sequence handed to a filter
MaxLen == 7

UniformTimes(n, dt) == Arr([i \in 1..n |-> Num(dt * (i - 1))])
Constant(c, n) == Arr([i \in 1..n |-> c])
Ramp(a, b, n, dt) == Arr([i \in 1..n |-> Add(a, Mul(b, Num(dt * (i - 1))))])
Alternating(n) == Arr([i \in 1..n |-> IF i % 2 = 0 THEN Num(-1) ELSE Num(1)])

FilterSteps == {1, 50}
RampIntercepts == {Num(1)}
RampSlopes == {Num(1), Num(-2), <<1, 2>>}
ConstLevels == {Num(-2), <<1, 2>>}

\* constant sequences, sampled linear ramps (with [1,2,3,4,5] among them), and
\* a sequence that is neither
FilterInputs ==
    {[t |-> UniformTimes(n, 1), y |-> Constant(c, n)] : c \in ConstLevels, n \in 1..MaxLen}
        \cup {[t |-> UniformTimes(n, dt), y |-> Ramp(a, b, n, dt)] :
                a \in RampIntercepts, b \in RampSlopes, n \in 1..MaxLen, dt \in FilterSteps}
        \cup {[t |-> UniformTimes(n, 1), y |-> Alternating(n)] : n \in 0..MaxLen}

FilterWindows == {-1, 1, 2, 3, 4, 5, 7}
FilterOrders == {-1, 0, 1, 2, 3, 4, 6}

\* no file is being parsed
ParseIdle ==
    /\ AppIdle
    /\ options = [sgWindow |-> 3, sgPoly |-> 1]
    /\ lines = <<>>
    /\ pc = "idle"
    /\ dataStarted = FALSE
    /\ lineCount = 0
    /\ t = <<>>
    /\ tenz = <<>>
    /\ interf = <<>>
    /\ result = EmptyResult
    /\ error = "none"
    /\ focus = NoFocus
    /\ chart = NoChart

FilterInit ==
    /\ \E in \in FilterInputs : tData = in.t /\ data = in.y
    /\ windowSize \in FilterWindows
    /\ polyOrder \in FilterOrders
    /\ smoothed = Pending
    /\ derivative = Pending
    /\ call = NoCall
    /\ ret = <<>>
    /\ ParseIdle

\* savitzkyGolay(data, windowSize, polyOrder)
Smooth ==
    /\ pc = "idle"
    /\ smoothed = Pending
    /\ smoothed' = savitzkyGolay(data, windowSize, polyOrder)
    /\ UNCHANGED <<data, tData, windowSize, polyOrder, derivative>>
    /\ UNCHANGED <<parseVars, callVars, appVars>>

\* calculateDerivativeSG(tData, data, windowSize, polyOrder)
Derive ==
    /\ pc = "idle"
    /\ derivative = Pending
    /\ derivative' = calculateDerivativeSG(tData, data, windowSize, polyOrder)
    /\ UNCHANGED <<data, tData, windowSize, polyOrder, smoothed>>
    /\ UNCHANGED <<parseVars, callVars, appVars>>

FilterNext == Smooth \/ Derive

SpecFilter == FilterInit /\ [][FilterNext]_vars

\* ------------------------------------------------------------------------
\* The other functions called directly
\* ------------------------------------------------------------------------
\* the longest sequence handed to removeBaseline
MaxArr == 4

ArrLevels == {Num(-2), <<1, 2>>, Num(3)}
BaselineCounts == {1, 2, 3, 2000}

BaselineCall(arr, N) ==
    [fn |-> "removeBaseline", t |-> <<>>, a |-> arr, b |-> <<>>, k |-> Num(N)]

\* the most crossings handed to filterClosePoints
MaxRoots == 4

RootTimes == {Num(0), Num(40), Num(100), Num(130), Num(250), PInf, NaN}
RootDistances == {Num(0), Num(50), Num(100)}

\* the values tell the positions apart: y0[i] = i
Tags(n) == Arr([i \in 1..n |-> Num(i)])

\* crossing lists in any order, ascending or not
RootCall(ts, d) ==
    [fn |-> "filterClosePoints", t |-> ts, a |-> Tags(Len(ts)), b |-> <<>>, k |-> d]

\* the most samples handed to findSignalIntersectionsAtZero
MaxPts == 3

\* sample times from 100 ns on, every 50 ns
PtTimes(n) == Arr([i \in 1..n |-> Num(50 * (i + 1))])
StrainLevels == {Num(-1), Zero, <<1, 50>>, Num(1)}
InterfLevels == {Zero, <<1, 25>>, <<1, 20>>}
Thresholds == {DefaultYThreshold, <<1, 25>>}

IntersectionCall(strain, level, th) ==
    [fn |-> "findSignalIntersectionsAtZero", t |-> PtTimes(Len(strain)),
     a |-> strain, b |-> level, k |-> th]

\* nothing else is running
NoFilterCall ==
    /\ data = <<>>
    /\ tData = <<>>
    /\ windowSize = 0
    /\ polyOrder = 0
    /\ smoothed = Pending
    /\ derivative = Pending

CallInit ==
    /\ \/ \E n \in 1..MaxArr : \E f \in [1..n -> ArrLevels] : \E N \in BaselineCounts :
            call = BaselineCall(Arr(f), N)
       \/ \E n \in 0..MaxRoots : \E f \in [1..n -> RootTimes] : \E d \in RootDistances :
            call = RootCall(Arr(f), d)
       \/ \E n \in 0..MaxPts : \E f \in [1..n -> StrainLevels] :
            \E g \in [1..n -> InterfLevels] : \E th \in Thresholds :
                call = IntersectionCall(Arr(f), Arr(g), th)
    /\ ret = <<>>
    /\ NoFilterCall
    /\ ParseIdle

Returns(v) ==
    /\ ret' = Append(ret, v)
    /\ UNCHANGED <<call, parseVars, filterVars, appVars>>

\* removeBaseline(arr, N)
CallRemoveBaseline ==
    /\ call.fn = "removeBaseline"
    /\ ret = <<>>
    /\ Returns(removeBaseline(call.a, call.k[1]))

\* filterClosePoints(t0, y0, minDistance)
CallFilterClosePoints ==
    /\ call.fn = "filterClosePoints"
    /\ ret = <<>>
    /\ Returns(filterClosePoints(call.t, call.a, call.k))

\* filterClosePoints on what it returned
CallFilterClosePointsAgain ==
    /\ call.fn = "filterClosePoints"
    /\ Len(ret) = 1
    /\ Returns(filterClosePoints(ret[1].filteredT0, ret[1].filteredY0, call.k))

\* findSignalIntersectionsAtZero(t, tenz, interf, yThreshold)
CallFindIntersections ==
    /\ call.fn = "findSignalIntersectionsAtZero"
    /\ ret = <<>>
    /\ Returns(findSignalIntersectionsAtZero(call.t, call.a, call.b, call.k))

\* findZeroCrossings(t, tenz) on the strain handed to the intersection finder
CallFindZeroCrossings ==
    /\ call.fn = "findSignalIntersectionsAtZero"
    /\ Len(ret) = 1
    /\ Returns(findZeroCrossings(call.t, call.a))

CallNext ==
    \/ CallRemoveBaseline
    \/ CallFilterClosePoints
    \/ CallFilterClosePointsAgain
    \/ CallFindIntersections
    \/ CallFindZeroCrossings

SpecCalls == CallInit /\ [][CallNext]_vars

\* ------------------------------------------------------------------------
\* Calls of the jump-edge detector
\* ------------------------------------------------------------------------
\* the most samples of a short signal handed to findLargestJumpStart
MaxSig == 4

SigLevels == {Num(-1), Zero, Num(1), Num(3)}

\* a signal with one sample every dt ns
JumpCall(signal, dt, k) ==
    [fn |-> "findLargestJumpStart", t |-> UniformTimes(Len(signal), dt), a |-> signal,
     b |-> <<>>, k |-> k]

\* 0 up to index at, then down by 1/ramp a sample, -1 from index at + ramp on
StepSignal(n, at, ramp) ==
    Arr([i \in 1..n |->
            IF i - 1 <= at THEN Zero
            ELSE IF i - 1 >= at + ramp THEN Num(-1)
            ELSE <<at - (i - 1), ramp>>])

\* the last index at 0 before a ramp of 20 samples: the ramp centred on index
\* 5000, leaving 0 at index 5000, leaving 0 after index 5000
RampStarts == {4990, 4999, 5000}

\* short signals of every shape, the constant ones among them; the step in
\* 10,000 samples, one every ns
JumpInit ==
    /\ \/ \E n \in 2..MaxSig : \E f \in [1..n -> SigLevels] : call = JumpCall(Arr(f), 50, Zero)
       \/ \E f \in [1..3 -> SigLevels] : call = JumpCall(Arr(f), 0, Zero)
       \/ \E at \in RampStarts : call = JumpCall(StepSignal(10000, at, 20), 1, Num(at))
    /\ ret = <<>>
    /\ NoFilterCall
    /\ ParseIdle

\* findLargestJumpStart(t, signal)
CallFindLargestJumpStart ==
    /\ call.fn = "findLargestJumpStart"
    /\ ret = <<>>
    /\ Returns(findLargestJumpStart(call.t, call.a))

\* findJumpByDerivative(t, signal) on the same arguments, for the short signals
CallFindJumpByDerivative ==
    /\ call.fn = "findLargestJumpStart"
    /\ Len(ret) = 1
    /\ Len(call.a) <= MaxSig
    /\ Returns(findJumpByDerivative(call.t, call.a))

JumpNext == CallFindLargestJumpStart \/ CallFindJumpByDerivative

SpecJump == JumpInit /\ [][JumpNext]_vars

\* ------------------------------------------------------------------------
\* ChartComponent: the intersections recomputed from rawData
\* ------------------------------------------------------------------------
\* typeof x === "number": here any value but null and undefined
IsNumber(x) == x # Undefined

\* arr.map((val) => val + offset)
ShiftBy(arr, offset) == Arr([i \in 1..Len(arr) |-> Add(arr[i], offset)])

\* minTime = intersectionXMin ?? (t.length > 0 ? t[0] : null)
MinTimeOf(times, intersectionXMin) ==
    IF IsNumber(intersectionXMin) THEN intersectionXMin
    ELSE IF Len(times) > 0 THEN At(times, 0) ELSE Undefined

\* the point of a bracketing pair is pushed unless diffDelta === 0, or its time
\* is below a numeric minTime, or its value is outside the threshold
PushRecomputed(acc, c, diffDelta, minTime, yThreshold) ==
    IF /\ c.found
       /\ diffDelta # Zero
       /\ ~(IsNumber(minTime) /\ Lt(c.time, minTime))
       /\ Le(Abs(c.value), yThreshold)
    THEN Append(acc, [time |-> c.time, value |-> c.value])
    ELSE acc

\* for (let i = 1; i < interfCorrected.length; i++) { ... }
RECURSIVE RecomputeFrom(_, _, _, _, _, _)
RecomputeFrom(times, shiftedTenz, shiftedInterf, minTime, i, acc) ==
    IF i >= Len(shiftedInterf) THEN acc
    ELSE RecomputeFrom(times, shiftedTenz, shiftedInterf, minTime, i + 1,
             PushRecomputed(acc, CrossingAt(times, shiftedTenz, shiftedInterf, i),
                 Sub(Sub(At(shiftedTenz, i), At(shiftedInterf, i)),
                     Sub(At(shiftedTenz, i - 1), At(shiftedInterf, i - 1))),
                 minTime, DefaultYThreshold))

\* newIntersections.filter((p) => p.time >= minTime) when minTime is a number
FromMinTime(points, minTime) ==
    IF IsNumber(minTime) THEN SelectSeq(points, LAMBDA p : Ge(p.time, minTime))
    ELSE points

\* the effect on [tenzOffset, interfOffset, intersectionXMin, data.rawData]:
\* the list handed to setCurrentIntersections
RecomputeEffect(times, strain, interfCorrected, tenzOffset, interfOffset, intersectionXMin) ==
    FromMinTime(RecomputeFrom(times, ShiftBy(strain, tenzOffset), ShiftBy(interfCorrected, interfOffset),
                              MinTimeOf(times, intersectionXMin), 1, <<>>),
                MinTimeOf(times, intersectionXMin))

\* the first version's effect on [tenzOffset, interfOffset, data.rawData]: no
\* minimum time
OffsetEffect(times, strain, interfCorrected, tenzOffset, interfOffset) ==
    RecomputeFrom(times, ShiftBy(strain, tenzOffset), ShiftBy(interfCorrected, interfOffset),
                  Undefined, 1, <<>>)

\* the most samples of the rawData handed to the component
MaxRaw == 3

\* times every 50 ns from 100 ns on, in ascending or in descending order
RawTimes(n) == {PtTimes(n), Arr([i \in 1..n |-> Num(50 * (n + 2 - i))])}
RawTenz == {Num(-1), Zero, Num(1)}
RawInterf == {Zero, <<1, 25>>}
OffsetValues == {Zero, Num(1)}
XMinValues == {Undefined, Num(125)}

\* the data prop and the component's state after useState(0), useState(0),
\* useState(null)
Mounted(times, tenzData, interfData) ==
    [fn |-> "ChartComponent", t |-> times, a |-> tenzData, b |-> interfData, k |-> Zero,
     tenzOffset |-> Zero, interfOffset |-> Zero, intersectionXMin |-> Undefined]

\* ret[1] is data.intersections, the core's intersectionPoints of rawData
ChartInit ==
    /\ \E n \in 2..MaxRaw : \E times \in RawTimes(n) :
           \E f \in [1..n -> RawTenz] : \E g \in [1..n -> RawInterf] :
               /\ call = Mounted(times, Arr(f), Arr(g))
               /\ ret = <<findSignalIntersectionsAtZero(times, Arr(f), Arr(g), DefaultYThreshold)>>
    /\ NoFilterCall
    /\ ParseIdle

EffectsOf(c) ==
    <<RecomputeEffect(c.t, c.a, c.b, c.tenzOffset, c.interfOffset, c.intersectionXMin),
      OffsetEffect(c.t, c.a, c.b, c.tenzOffset, c.interfOffset)>>

\* the effects of the first render: ret[2] is currentIntersections of the
\* component, ret[3] that of its first version
RunEffects ==
    /\ call.fn = "ChartComponent"
    /\ Len(ret) = 1
    /\ ret' = ret \o EffectsOf(call)
    /\ UNCHANGED <<call, parseVars, filterVars, appVars>>

\* a state setter, the render and the effects that depend on the state
Rerender(c) ==
    /\ call.fn = "ChartComponent"
    /\ Len(ret) = 3
    /\ c # call
    /\ call' = c
    /\ ret' = <<ret[1]>> \o EffectsOf(c)
    /\ UNCHANGED <<parseVars, filterVars, appVars>>

SetTenzOffset == \E v \in OffsetValues : Rerender([call EXCEPT !.tenzOffset = v])

SetInterfOffset == \E v \in OffsetValues : Rerender([call EXCEPT !.interfOffset = v])

SetIntersectionXMin == \E v \in XMinValues : Rerender([call EXCEPT !.intersectionXMin = v])

ChartNext == RunEffects \/ SetTenzOffset \/ SetInterfOffset \/ SetIntersectionXMin

SpecChart == ChartInit /\ [][ChartNext]_vars

\* ------------------------------------------------------------------------
\* App: the smoothing settings, uploads, re-processing and reset
\* ------------------------------------------------------------------------
\* the files the user selects
Files == {"a.csv", "b.csv"}

\* Number(e.target.value) for the texts typed into the window input:
\* "", "0", "2", "3", "4.5", "-4"
TypedWindows == {NaN, Num(0), Num(2), Num(3), <<9, 2>>, Num(-4)}

\* and into the order input: "", "0", "2", "4.5", "40"
TypedOrders == {NaN, Num(0), Num(2), <<9, 2>>, Num(40)}

\* Math.floor(Number(text) || fallback), for a finite number or NaN
FloorOr(v, fallback) ==
    IF IsNaN(v) \/ v = Zero THEN fallback ELSE v[1] \div v[2]

\* odd = val % 2 === 0 ? val + 1 : val; next = Math.max(3, odd)
NextWindow(val) == Max(3, IF val % 2 = 0 THEN val + 1 ELSE val)

\* clamped = Math.min(Math.max(1, raw), sgWindow - 1)
ClampedOrder(raw, window) == Min(Max(1, raw), window - 1)

\* the section with the two inputs and the button is rendered when !loading
SettingsShown == ~loading

\* onChange of the window input
WindowOnChange ==
    /\ SettingsShown
    /\ \E v \in TypedWindows : sgWindow' = NextWindow(FloorOr(v, 3))
    /\ UNCHANGED <<chartData, loading, errorText, sgPoly, applyingSmoothing, lastFileRef, runs>>
    /\ UNCHANGED <<parseVars, filterVars, callVars>>

\* onChange of the order input
PolyOrderOnChange ==
    /\ SettingsShown
    /\ \E v \in TypedOrders : sgPoly' = ClampedOrder(FloorOr(v, 1), sgWindow)
    /\ UNCHANGED <<chartData, loading, errorText, sgWindow, applyingSmoothing, lastFileRef, runs>>
    /\ UNCHANGED <<parseVars, filterVars, callVars>>

\* processCSVData(file, { sgWindow, sgPoly }) has been called and has not settled
Run(kind, file) == [kind |-> kind, file |-> file, sgWindow |-> sgWindow, sgPoly |-> sgPoly]

\* generateChartData(results) for the results the run resolved with
ChartDataOf(run) == [file |-> run.file, sgWindow |-> run.sgWindow, sgPoly |-> run.sgPoly]

\* handleFileUpload up to its await; the drop zone is rendered when
\* !chartData && !loading
HandleFileUpload ==
    /\ chartData = NoChartData
    /\ ~loading
    /\ \E file \in Files :
           /\ lastFileRef' = file
           /\ runs' = runs \cup {Run("upload", file)}
    /\ loading' = TRUE
    /\ errorText' = ""
    /\ UNCHANGED <<chartData, sgWindow, sgPoly, applyingSmoothing>>
    /\ UNCHANGED <<parseVars, filterVars, callVars>>

\* handleFileUpload after its await, the promise resolved
UploadResolved ==
    /\ \E run \in runs :
           /\ run.kind = "upload"
           /\ chartData' = ChartDataOf(run)
           /\ runs' = runs \ {run}
    /\ loading' = FALSE
    /\ UNCHANGED <<errorText, sgWindow, sgPoly, applyingSmoothing, lastFileRef>>
    /\ UNCHANGED <<parseVars, filterVars, callVars>>

\* handleFileUpload after its await, the promise rejected
UploadRejected ==
    /\ \E run \in runs :
           /\ run.kind = "upload"
           /\ runs' = runs \ {run}
    /\ errorText' = "processing failed"
    /\ loading' = FALSE
    /\ UNCHANGED <<chartData, sgWindow, sgPoly, applyingSmoothing, lastFileRef>>
    /\ UNCHANGED <<parseVars, filterVars, callVars>>

\* onClick of the apply button up to its await; the button is disabled when
\* !lastFileRef.current || loading || applyingSmoothing
ApplyOnClick ==
    /\ SettingsShown
    /\ ~applyingSmoothing
    /\ lastFileRef # NoFile
    /\ applyingSmoothing' = TRUE
    /\ errorText' = ""
    /\ runs' = runs \cup {Run("apply", lastFileRef)}
    /\ UNCHANGED <<chartData, loading, sgWindow, sgPoly, lastFileRef>>
    /\ UNCHANGED <<parseVars, filterVars, callVars>>

\* onClick after its await, the promise resolved
ApplyResolved ==
    /\ \E run \in runs :
           /\ run.kind = "apply"
           /\ chartData' = ChartDataOf(run)
           /\ runs' = runs \ {run}
    /\ applyingSmoothing' = FALSE
    /\ UNCHANGED <<loading, errorText, sgWindow, sgPoly, lastFileRef>>
    /\ UNCHANGED <<parseVars, filterVars, callVars>>

\* onClick after its await, the promise rejected
ApplyRejected ==
    /\ \E run \in runs :
           /\ run.kind = "apply"
           /\ runs' = runs \ {run}
    /\ errorText' = "processing failed"
    /\ applyingSmoothing' = FALSE
    /\ UNCHANGED <<chartData, loading, sgWindow, sgPoly, lastFileRef>>
    /\ UNCHANGED <<parseVars, filterVars, callVars>>

\* resetFiles; its two buttons are rendered when error or chartData is set
ResetFiles ==
    /\ errorText # "" \/ chartData # NoChartData
    /\ chartData' = NoChartData
    /\ errorText' = ""
    /\ lastFileRef' = NoFile
    /\ UNCHANGED <<loading, sgWindow, sgPoly, applyingSmoothing, runs>>
    /\ UNCHANGED <<parseVars, filterVars, callVars>>

AppInit == FilterIdle /\ ParseIdle

AppNext ==
    \/ WindowOnChange
    \/ PolyOrderOnChange
    \/ HandleFileUpload
    \/ UploadResolved
    \/ UploadRejected
    \/ ApplyOnClick
    \/ ApplyResolved
    \/ ApplyRejected
    \/ ResetFiles

SpecApp == AppInit /\ [][AppNext]_vars

\* ------------------------------------------------------------------------
\* The row window of the parser, stated on the text that was read
\* ------------------------------------------------------------------------
\* the position of the first header line, Len(ls) + 1 when there is none
FirstHeader(ls) ==
    IF \E k \in 1..Len(ls) : IsHeader(ls[k])
    THEN CHOOSE k \in 1..Len(ls) : IsHeader(ls[k]) /\ \A j \in 1..(k - 1) : ~IsHeader(ls[j])
    ELSE Len(ls) + 1

\* line k is a data row after the first header, and its 1-based number among them
IsDataRow(ls, k) == k > FirstHeader(ls) /\ IsRow(ls[k])
RowNumber(ls, k) == Cardinality({j \in (FirstHeader(ls) + 1)..k : IsRow(ls[j])})

FieldsOf(line) == Split(Trim(line), ",")

\* the positions of the rows numbered s..e that pass Good, in text order
KeptRows(ls, s, e, Good(_)) ==
    SelectSeq(Arr([k \in 1..Len(ls) |-> k]),
              LAMBDA k : /\ IsDataRow(ls, k)
                         /\ s <= RowNumber(ls, k)
                         /\ RowNumber(ls, k) <= e
                         /\ Good(FieldsOf(ls[k])))

\* the three traces are exactly the rows at the positions ks, scaled
TraceIs(ls, ks) ==
    /\ t = Arr([i \in 1..Len(ks) |-> parseFloat(FieldsOf(ls[ks[i]])[1])])
    /\ tenz = Arr([i \in 1..Len(ks) |-> ScaleTenz(parseFloat(FieldsOf(ls[ks[i]])[2]))])
    /\ interf = Arr([i \in 1..Len(ks) |-> ShiftInterf(parseFloat(FieldsOf(ls[ks[i]])[4]))])

\* a row numbered above e is the last line read, and the loop has left
StopsAfter(ls, e) ==
    \A k \in 1..Len(ls) :
        (IsDataRow(ls, k) /\ RowNumber(ls, k) > e) => (k = Len(ls) /\ pc # "parse")

WindowSupplied == "skipStart" \in DOMAIN options /\ "skipEnd" \in DOMAIN options

\* C1: with skipStart = s >= 1 and skipEnd = e >= s, the traces hold exactly the
\* accepted rows numbered s..e after the first header, in text order, and nothing
\* is read after the first row numbered above e.
C1_RowWindow ==
    (WindowSupplied /\ options.skipStart >= 1 /\ options.skipEnd >= options.skipStart) =>
        /\ TraceIs(lines, KeptRows(lines, options.skipStart, options.skipEnd, RowAccepted))
        /\ StopsAfter(lines, options.skipEnd)

\* a row below skipStart was passed over, a row was kept, and a row above skipEnd
\* ended the loop
C1_Witness ==
    /\ WindowSupplied /\ options.skipStart = 2 /\ options.skipEnd = 2
    /\ pc = "done"
    /\ Len(t) >= 1
    /\ lineCount > options.skipEnd

\* the value of key k: the supplied one, the default d when the key is unset
Supplied(k, d) == IF k \in DOMAIN options THEN options[k] ELSE d

\* C2: the row window used is the one supplied (defaults only for unset keys), so
\* with skipStart = 0 and skipEnd = e the accepted rows numbered 1..e are retained.
C2_SuppliedWindowUsed ==
    TraceIs(lines, KeptRows(lines, Supplied("skipStart", DefaultSkipStart),
                            Supplied("skipEnd", DefaultSkipEnd), RowAccepted))

\* skipStart = 0 is supplied and a row numbered 1 has been read
C2_Scenario ==
    /\ WindowSupplied /\ options.skipStart = 0
    /\ pc = "done"
    /\ \E k \in 1..Len(lines) : IsDataRow(lines, k) /\ RowAccepted(FieldsOf(lines[k]))

\* at least five fields, and fields 0, 1, 3 parse as finite numbers
FiniteRow(fields) ==
    /\ Len(fields) >= 5
    /\ IsFin(parseFloat(fields[1]))
    /\ IsFin(parseFloat(fields[2]))
    /\ IsFin(parseFloat(fields[4]))

\* a row whose first field reads Infinity was inside the window
C3_Scenario ==
    /\ pc = "done"
    /\ \E i \in 1..Len(t) : ~IsFin(t[i])

\* C3: a row inside the window is appended if and only if it has at least five
\* fields and fields 0, 1, 3 all parse as finite numbers.
C3_FiniteRowsOnly ==
    TraceIs(lines, KeptRows(lines, skipStartOf(options), skipEndOf(options), FiniteRow))

AllEmpty(r) ==
    /\ r.interfSmoothed = <<>>
    /\ r.interfCorrected = <<>>
    /\ r.t0 = <<>>
    /\ r.y0 = <<>>
    /\ r.dudt_interf = <<>>
    /\ r.intersectionPoints = <<>>

\* C4: whatever the text, parseCSV and generateChartData return without throwing,
\* and when no row survives every series, the zero-crossing list and the
\* intersection list are empty and there is no focus point.
C4_NeverRaisesEmptyIsEmpty ==
    /\ pc # "raised"
    /\ error = "none"
    /\ (pc \in {"chart", "done"} /\ t = <<>>) => AllEmpty(result)
    /\ (pc = "done" /\ t = <<>>) => (chart = NoChart /\ ~focus.found)

\* a text with a header and rows, none of which survives, went through the pipeline
C4_Witness ==
    /\ pc = "done"
    /\ t = <<>>
    /\ dataStarted
    /\ lineCount >= 1

\* ------------------------------------------------------------------------
\* The filters
\* ------------------------------------------------------------------------
\* the window and order the contract asks both paths to work with
WindowOf(opts) == NormWindow(sgWindowOf(opts))
OrderOf(opts) == NormOrder(sgWindowOf(opts), sgPolyOf(opts))

\* the local derivative scattered back, computed with window w and order p
DerivativeWith(w, p) ==
    Scatter(Len(t), result.idxMap,
            calculateDerivativeSG(Gather(t, result.idxMap),
                                  Gather(result.interfCorrected, result.idxMap), w, p).val)

\* C5: for every window and order supplied, the smoothing path and the
\* localized-derivative path both work with an odd window >= 3 and an order in
\* [1, window - 1], and neither raises.
C5_InvalidConfigNormalised ==
    /\ pc # "raised"
    /\ pc \in {"chart", "done"} =>
        /\ result.interfSmoothed = savitzkyGolay(interf, WindowOf(options), OrderOf(options)).val
        /\ Len(result.idxMap) > 3 =>
            result.dudt_interf = DerivativeWith(WindowOf(options), OrderOf(options))

\* the localized derivative was asked for with order >= window on more than
\* three selected samples
C5_Scenario ==
    /\ pc \in {"done", "raised"}
    /\ options.sgPoly >= options.sgWindow
    /\ options.sgWindow >= 3
    /\ \E i \in 1..(Len(interf) - 1) : interf[i] # interf[i + 1]
    /\ Len(interf) > 3

DegenerateFor(half, order) == PseudoInverse(half, order).err = "Matrix degenerate"

\* C6: when the inversion meets a pivot below 1e-15, smoothing returns a sequence
\* equal to its input, the derivative returns zeros of the input's length, and
\* the condition does not reach the caller.
C6_DegenerateFallback ==
    /\ smoothed.err # "Matrix degenerate"
    /\ derivative.err # "Matrix degenerate"
    /\ (derivative # Pending /\ Len(data) >= 3 /\ DegenerateFor(windowSize \div 2, polyOrder)) =>
        derivative = Ok(Constant(Zero, Len(data)))
    /\ (smoothed # Pending /\ Len(data) >= 1) =>
        SmoothWith(data, NormWindow(windowSize) \div 2, Throw("Matrix degenerate")) = Ok(data)

\* the derivative of a sequence that is not all zero met a degenerate matrix
C6_Witness ==
    /\ derivative # Pending
    /\ Len(data) >= 3
    /\ DegenerateFor(windowSize \div 2, polyOrder)
    /\ \E i \in 1..Len(data) : data[i] # Zero

\* an odd window >= 3 with an order in [1, window - 1]
ValidFilter == windowSize >= 3 /\ windowSize % 2 = 1 /\ polyOrder >= 1 /\ polyOrder < windowSize

RECURSIVE SumOf(_)
SumOf(xs) == IF xs = <<>> THEN Zero ELSE Add(Head(xs), SumOf(Tail(xs)))

IsConstant(xs) == \A i \in 1..Len(xs) : xs[i] = xs[1]

\* C7: for an odd window >= 3 and 1 <= order < window the smoothing coefficients
\* sum to 1, and smoothing a constant sequence of length >= 1 returns it at every
\* index, the clamped ones included.
C7_ConstantPreserved ==
    (ValidFilter /\ smoothed # Pending) =>
        /\ SumOf(PseudoInverse(windowSize \div 2, polyOrder).val[1]) = One
        /\ (Len(data) >= 1 /\ IsConstant(data)) => smoothed = Ok(data)

\* a constant shorter than the window was smoothed: every index is clamped
C7_Witness ==
    /\ ValidFilter
    /\ smoothed # Pending
    /\ IsConstant(data)
    /\ Len(data) >= 2
    /\ Len(data) < windowSize
    /\ data[1] # Zero

OneToFive == <<Num(1), Num(2), Num(3), Num(4), Num(5)>>
IsScenario8 == data = OneToFive /\ windowSize = 5 /\ polyOrder = 2 /\ smoothed # Pending

\* C8 as stated: window 5, order 2 on [1,2,3,4,5] returns [1,2,3,4,5].
C8_ScenarioUnchanged == IsScenario8 => smoothed = Ok(OneToFive)

\* C8 amended: window 5, order 2 on [1,2,3,4,5] returns the input value at index
\* 2, the one index whose window is not clamped; at indices 0, 1, 3, 4 the
\* clamped windows give 41/35, 67/35, 143/35, 169/35.
C8_ScenarioInterior ==
    IsScenario8 =>
        /\ smoothed = Ok(<<(<<41, 35>>), (<<67, 35>>), Num(3), (<<143, 35>>), (<<169, 35>>)>>)
        /\ \A i \in 1..5 : (smoothed.val[i] = OneToFive[i]) <=> (i = 3)

C8_Witness == IsScenario8

\* data is a + b * tData on uniformly spaced tData
IsRamp ==
    /\ Len(data) >= 2
    /\ Len(tData) = Len(data)
    /\ Gt(Sub(tData[2], tData[1]), Zero)
    /\ \A i \in 1..(Len(data) - 1) :
        /\ Sub(tData[i + 1], tData[i]) = Sub(tData[2], tData[1])
        /\ Sub(data[i + 1], data[i]) = Sub(data[2], data[1])

RampSlope == Div(Sub(data[2], data[1]), Sub(tData[2], tData[1]))

\* the indices whose window lies inside the sequence, 0-based
Interior(n, half) == {i \in 0..(n - 1) : half <= i /\ i <= n - 1 - half}

\* C9: on a uniformly sampled linear ramp, with an odd window >= 3 and
\* 1 <= order < window, the derivative is exactly b at every interior index.
C9_RampDerivative ==
    (ValidFilter /\ IsRamp /\ derivative # Pending) =>
        /\ derivative.err = "none"
        /\ \A i \in Interior(Len(data), (windowSize - 1) \div 2) :
            At(derivative.val, i) = RampSlope

\* a ramp with slope other than 0 and 1, on a step other than 1, has interior indices
C9_Witness ==
    /\ ValidFilter /\ IsRamp /\ derivative # Pending
    /\ windowSize = 5
    /\ Interior(Len(data), 2) # {}
    /\ RampSlope \notin {Zero, One}
    /\ Sub(tData[2], tData[1]) # One

Clamp(x, lo, hi) == IF x < lo THEN lo ELSE IF x > hi THEN hi ELSE x

\* every read of a convolution over n samples with half-width half
ReadsInRange(n, half) ==
    \A i \in 0..(n - 1) : \A j \in (-half)..half :
        /\ ClampIdx(i + j, n) = Clamp(i + j, 0, n - 1)
        /\ ClampIdx(i + j, n) \in 0..(n - 1)
        /\ j + half \in 0..(2 * half)

AllFinite(xs) == \A i \in 1..Len(xs) : IsFin(xs[i])

Called(fn) == call.fn = fn /\ Len(ret) >= 1

\* the arithmetic mean of the first m samples
MeanOfFirst(xs, m) == Div(SumOf(SubSeq(xs, 1, m)), Num(m))

\* C11: for a non-empty sequence and N >= 1 every output sample is the input
\* sample minus the mean of the first min(N, length) input samples, the first
\* min(N, length) outputs sum to zero, and the output has the input's length.
C11_BaselineRemoved ==
    (Called("removeBaseline") /\ Len(call.a) >= 1 /\ call.k[1] >= 1) =>
        /\ Len(ret[1]) = Len(call.a)
        /\ \A i \in 1..Len(call.a) :
            ret[1][i] = Sub(call.a[i], MeanOfFirst(call.a, Min(call.k[1], Len(call.a))))
        /\ SumOf(SubSeq(ret[1], 1, Min(call.k[1], Len(call.a)))) = Zero

\* a sequence longer than N, not constant over its first N samples, was corrected
C11_Witness ==
    /\ Called("removeBaseline")
    /\ call.k[1] = 2
    /\ Len(call.a) >= 3
    /\ call.a[1] # call.a[2]
    /\ call.a[3] # call.a[1]

\* C12: running the de-duplication on its own output returns that output
\* unchanged, for every list of crossing times with aligned values and every
\* minimum distance.
C12_DedupIdempotent ==
    (call.fn = "filterClosePoints" /\ Len(ret) = 2) => ret[2] = ret[1]

\* a list that lost points was de-duplicated twice
C12_Witness ==
    /\ call.fn = "filterClosePoints"
    /\ Len(ret) = 2
    /\ Len(ret[1].filteredT0) >= 2
    /\ Len(ret[1].filteredT0) < Len(call.t)

Ascending(ts) == \A i \in 1..(Len(ts) - 1) : Le(ts[i], ts[i + 1])

\* the position in the input of the j-th point returned (the value is its tag)
KeptAt(out, j) == out.filteredY0[j][1]

\* C13: de-duplicating a time-ascending list returns a subsequence of it, in
\* order, starting with the first point, with times and values aligned and of
\* equal length, and no two points closer than minDistance.
C13_MinimumSeparation ==
    (Called("filterClosePoints") /\ Ascending(call.t) /\ Len(call.t) >= 1) =>
        /\ Len(ret[1].filteredT0) = Len(ret[1].filteredY0)
        /\ Len(ret[1].filteredT0) >= 1
        /\ KeptAt(ret[1], 1) = 1
        /\ \A j \in 1..Len(ret[1].filteredT0) :
            /\ KeptAt(ret[1], j) \in 1..Len(call.t)
            /\ ret[1].filteredT0[j] = call.t[KeptAt(ret[1], j)]
            /\ ret[1].filteredY0[j] = call.a[KeptAt(ret[1], j)]
        /\ \A i, j \in 1..Len(ret[1].filteredT0) :
            i < j =>
                /\ KeptAt(ret[1], i) < KeptAt(ret[1], j)
                /\ Ge(Sub(ret[1].filteredT0[j], ret[1].filteredT0[i]), call.k)

\* an ascending list with a close pair in the middle was de-duplicated
C13_Witness ==
    /\ Called("filterClosePoints")
    /\ Ascending(call.t)
    /\ call.k = Num(100)
    /\ Len(call.t) = 4
    /\ Len(ret[1].filteredT0) = 3

\* strain - interf at position i (1-based)
DiffAt(i) == Sub(call.a[i], call.b[i])

AllDiffs(P(_)) == \A i \in 1..Len(call.t) : P(DiffAt(i))
NonNegative(x) == Ge(x, Zero)
NonPositive(x) == Le(x, Zero)
Positive(x) == Gt(x, Zero)
Negative(x) == Lt(x, Zero)

\* C14 as stated: when the difference is >= 0 at every sample, or <= 0 at every
\* sample, no intersection is reported.
C14_NoCrossingWithoutOppositeSign ==
    (Called("findSignalIntersectionsAtZero") /\ (AllDiffs(NonNegative) \/ AllDiffs(NonPositive))) =>
        ret[1] = <<>>

\* the pairs (i, i+1) whose difference moves to the other side of zero or away
\* from zero: the signs differ and the second difference is not zero
LeavesOrCrosses(i) == Sgn(DiffAt(i)) # Sgn(DiffAt(i + 1)) /\ DiffAt(i + 1) # Zero
CrossingPairs == {i \in 1..(Len(call.t) - 1) : LeavesOrCrosses(i)}

\* C14 amended: an intersection is reported only for an adjacent pair with
\* diffPrev <= 0 < diffCurr or diffPrev >= 0 > diffCurr; when the difference is
\* > 0 at every sample, < 0 at every sample, or 0 at every sample, none is
\* reported. A pair that starts on zero and leaves it counts as a crossing.
C14_CrossingNeedsBracket ==
    Called("findSignalIntersectionsAtZero") =>
        /\ Len(ret[1]) <= Cardinality(CrossingPairs)
        /\ \A p \in 1..Len(ret[1]) :
            \E i \in CrossingPairs :
                Le(call.t[i], ret[1][p].time) /\ Le(ret[1][p].time, call.t[i + 1])
        /\ (AllDiffs(Positive) \/ AllDiffs(Negative) \/ AllDiffs(LAMBDA x : x = Zero)) =>
            ret[1] = <<>>

\* the difference never changes side, leaves zero once, and that is reported
C14_Witness ==
    /\ Called("findSignalIntersectionsAtZero")
    /\ AllDiffs(NonNegative)
    /\ Len(call.t) = 3
    /\ Len(ret[1]) = 1

\* r = -diffPrev / (diffCurr - diffPrev) for the pair (i, i+1)
RatioAt(i) == Div(Neg(DiffAt(i)), Sub(DiffAt(i + 1), DiffAt(i)))
Interpolated(xs, i) == Add(xs[i], Mul(RatioAt(i), Sub(xs[i + 1], xs[i])))

Candidate(i) ==
    [time |-> Interpolated(call.t, i),
     value |-> Div(Add(Interpolated(call.a, i), Interpolated(call.b, i)), Num(2))]

InBand(i) == Le(Abs(Candidate(i).value), call.k)

\* the candidates of the bracketing pairs that lie in the band, in order
RECURSIVE ExpectedFrom(_)
ExpectedFrom(i) ==
    IF i >= Len(call.t) THEN <<>>
    ELSE (IF LeavesOrCrosses(i) /\ InBand(i) THEN <<Candidate(i)>> ELSE <<>>) \o ExpectedFrom(i + 1)

\* C15: each bracketing pair gives a candidate with the interpolated time and
\* the average of the two interpolated series as value; the result holds exactly
\* the candidates with |value| <= threshold (bound included), so every reported
\* intersection is inside the band.
C15_AmplitudeBand ==
    Called("findSignalIntersectionsAtZero") =>
        /\ ret[1] = ExpectedFrom(1)
        /\ \A p \in 1..Len(ret[1]) : Le(Abs(ret[1][p].value), call.k)

\* one candidate sits exactly on the bound and is kept, another is outside and dropped
C15_Witness ==
    /\ Called("findSignalIntersectionsAtZero")
    /\ \E i \in CrossingPairs : Abs(Candidate(i).value) = call.k
    /\ \E i \in CrossingPairs : ~InBand(i)
    /\ Len(ret[1]) = 1

\* the pairs where the strain changes sign: strain[i-1] * strain[i] < 0
StrainSignChanges == {i \in 1..(Len(call.a) - 1) : Lt(Mul(call.a[i], call.a[i + 1]), Zero)}

\* C16: with interf identically 0, every adjacent pair where the strain changes
\* sign gives one intersection, at the time zero-crossing mode computes for the
\* pair and with amplitude 0; no zero crossing of the strain is missing.
C16_ZeroInterfMatchesZeroCrossings ==
    (call.fn = "findSignalIntersectionsAtZero" /\ Len(ret) = 2
        /\ \A i \in 1..Len(call.b) : call.b[i] = Zero) =>
        /\ Len(ret[2].t0) = Cardinality(StrainSignChanges)
        /\ \A j \in 1..Len(ret[2].t0) :
            Cardinality({p \in 1..Len(ret[1]) :
                ret[1][p].time = ret[2].t0[j] /\ ret[1][p].value = Zero}) = 1
        /\ \A i \in StrainSignChanges :
            \E p \in 1..Len(ret[1]) :
                ret[1][p].time = Interpolated(call.t, i) /\ ret[1][p].value = Zero

\* a strain that crosses zero between samples of unequal size, against interf 0
C16_Witness ==
    /\ call.fn = "findSignalIntersectionsAtZero"
    /\ Len(ret) = 2
    /\ \A i \in 1..Len(call.b) : call.b[i] = Zero
    /\ Len(ret[2].t0) = 2
    /\ \E i \in StrainSignChanges : call.a[i] # Neg(call.a[i + 1])

\* parseCSV returned (it did not throw)
Returned == pc \in {"chart", "done"}

\* w = derivativeWindowNs * 1e-9
HalfWidth == NsToTime(derivativeWindowNsOf(options))

\* c - w <= t[i] <= c + w for some de-duplicated zero crossing c (i is 0-based)
NearRoot(i) ==
    \E k \in 1..Len(result.t0) :
        /\ Le(Sub(result.t0[k], HalfWidth), At(t, i))
        /\ Le(At(t, i), Add(result.t0[k], HalfWidth))

\* the 0-based indices near a root, ascending
RECURSIVE NearRootFrom(_)
NearRootFrom(i) ==
    IF i >= Len(t) THEN <<>>
    ELSE (IF NearRoot(i) THEN <<i>> ELSE <<>>) \o NearRootFrom(i + 1)

\* the derivative on the samples near a root alone
LocalValues ==
    calculateDerivativeSG(Gather(t, NearRootFrom(0)),
                          Gather(result.interfCorrected, NearRootFrom(0)),
                          sgWindowOf(options), sgPolyOf(options)).val

\* position k (1-based) of index i among the indices near a root
RankOf(i) == Cardinality({j \in 0..i : NearRoot(j)})

\* C17: an index within derivativeWindowSeconds of a de-duplicated zero crossing
\* is evaluated and holds the derivative computed for that sample on the selected
\* subsequence; every other index holds exactly 0.
C17_LocalizedDerivative ==
    Returned =>
        \A i \in 0..(Len(t) - 1) :
            IF NearRoot(i)
            THEN /\ RankOf(i) <= Len(LocalValues)
                 /\ At(result.dudt_interf, i) = LocalValues[RankOf(i)]
            ELSE At(result.dudt_interf, i) = Zero

\* one to three samples lie near a root: no derivative is computed, and the
\* series holds undefined there
C17_Scenario ==
    /\ Returned
    /\ Len(NearRootFrom(0)) \in 1..3
    /\ \E i \in 0..(Len(t) - 1) : NearRoot(i) /\ At(result.dudt_interf, i) = Undefined
    /\ \E i \in 0..(Len(t) - 1) : ~NearRoot(i) /\ At(result.dudt_interf, i) = Zero

\* amplitude = baseline - minimum, of the smoothed signal
AmplitudeOf(smoothSignal) == Amplitude(smoothSignal, Baseline(smoothSignal))

\* the detector ran on a time and a signal sequence of one length >= 3
JumpCalled ==
    /\ Called("findLargestJumpStart")
    /\ Len(call.a) >= 3
    /\ Len(call.t) = Len(call.a)

IsFlat(arr) == \A i \in 1..Len(arr) : arr[i] = arr[1]

\* C18: for a signal of length >= 3 whose amplitude (baseline - global minimum
\* of the smoothed signal) is not positive, for instance a constant signal, the
\* detector returns no FocusHint.
C18_AbsentWithoutAmplitude ==
    (JumpCalled /\ ~Gt(AmplitudeOf(JumpSmooth(call.a)), Zero)) => ~ret[1].found

\* a signal that is 0 at every sample: the amplitude is 0, the slopes are all 0,
\* and a FocusHint at the first sample comes back
C18_Scenario ==
    /\ JumpCalled
    /\ IsFlat(call.a)
    /\ call.a[1] = Zero
    /\ AmplitudeOf(JumpSmooth(call.a)) = Zero
    /\ Len(ret) = 2
    /\ ret[2] = 0
    /\ ret[1].found
    /\ ret[1].time = At(call.t, 0)
    /\ Gt(ret[1].window, Zero)

\* the 10,000-sample step: call.k holds the last index at 0 before the ramp
StepCalled == Called("findLargestJumpStart") /\ Len(call.a) = 10000

\* |time - t[5000]| <= one sample interval
NearIndex5000(time) ==
    Le(Abs(Sub(time, At(call.t, 5000))), Sub(At(call.t, 1), At(call.t, 0)))

\* C19 as stated: on the 10,000-sample step the detector returns a time within
\* one sample of index 5,000 and a positive window.
C19_StepWithinOneSample ==
    StepCalled =>
        /\ ret[1].found
        /\ NearIndex5000(ret[1].time)
        /\ Gt(ret[1].window, Zero)

\* C19 amended: on the 10,000-sample step the detector returns the time of the
\* first smoothed sample at or below baseline - 0.15 * amplitude, which is the
\* fourth sample of the ramp (index 5,003 or 5,004 when the signal is 0 for
\* i < 5000), and the positive window spanning 200 samples on either side.
C19_StepAtThresholdSample ==
    StepCalled =>
        /\ ret[1].found
        /\ ret[1].time = At(call.t, call.k[1] + 4)
        /\ ret[1].window = Sub(At(call.t, call.k[1] + 204), At(call.t, call.k[1] - 196))
        /\ Gt(ret[1].window, Zero)
        /\ Gt(At(JumpSmooth(call.a), call.k[1] + 3),
              Mul(MinFrom(JumpSmooth(call.a), 1, Zero), <<3, 20>>))
        /\ Le(At(JumpSmooth(call.a), call.k[1] + 4),
              Mul(MinFrom(JumpSmooth(call.a), 1, Zero), <<3, 20>>))

\* the signal is 0 for i < 5000 and the time returned is that of index 5,003
C19_Witness ==
    /\ StepCalled
    /\ \A i \in 0..4999 : At(call.a, i) = Zero
    /\ At(call.a, 5000) # Zero
    /\ At(call.a, 5019) = Num(-1)
    /\ ret[1].time = At(call.t, 5003)
    /\ ~NearIndex5000(ret[1].time)

\* C20: while and after a text is parsed the time, strain and interferometer
\* sequences have one length, and when parseCSV returns, the smoothed, the
\* baseline-corrected and the localized-derivative series have that length too.
C20_EqualLengths ==
    /\ Len(tenz) = Len(t)
    /\ Len(interf) = Len(t)
    /\ Returned =>
        /\ Len(result.interfSmoothed) = Len(t)
        /\ Len(result.interfCorrected) = Len(t)
        /\ Len(result.dudt_interf) = Len(t)

\* a text with a rejected row was parsed into two samples or more
C20_Witness ==
    /\ Returned
    /\ Len(t) >= 2
    /\ Len(lines) >= Len(t) + 2
    /\ Len(result.dudt_interf) = Len(t)

\* ------------------------------------------------------------------------
\* Zero crossings, de-duplication passes, the jump-edge detector in detail
\* ------------------------------------------------------------------------
\* findZeroCrossings ran on call.t and call.a; its result is ret[2]
ZeroCrossingsCalled == call.fn = "findSignalIntersectionsAtZero" /\ Len(ret) = 2

StrictlyIncreasing(ts) == \A i \in 1..(Len(ts) - 1) : Lt(ts[i], ts[i + 1])

\* the j-th pair (i, i+1), in order, with y[i] * y[i+1] < 0
ChangeNo(j) ==
    CHOOSE i \in StrainSignChanges : Cardinality({k \in StrainSignChanges : k <= i}) = j

\* t[i] - y[i] * (t[i+1] - t[i]) / (y[i+1] - y[i])
CrossingTimeOf(i) ==
    Sub(call.t[i], Div(Mul(call.a[i], Sub(call.t[i + 1], call.t[i])),
                       Sub(call.a[i + 1], call.a[i])))

\* C21: zero-crossing mode reports one crossing for each adjacent pair with
\* y[i-1] * y[i] < 0, in order, and none for any other pair; the time is
\* t[i-1] - y[i-1] * (t[i] - t[i-1]) / (y[i] - y[i-1]), strictly between
\* t[i-1] and t[i], the value is 0, and y[i] - y[i-1] is not zero.
C21_ZeroCrossings ==
    (ZeroCrossingsCalled /\ StrictlyIncreasing(call.t)) =>
        /\ Len(ret[2].t0) = Cardinality(StrainSignChanges)
        /\ Len(ret[2].y0) = Len(ret[2].t0)
        /\ \A j \in 1..Len(ret[2].t0) :
            /\ ret[2].t0[j] = CrossingTimeOf(ChangeNo(j))
            /\ Lt(call.t[ChangeNo(j)], ret[2].t0[j])
            /\ Lt(ret[2].t0[j], call.t[ChangeNo(j) + 1])
            /\ ret[2].y0[j] = Zero
            /\ call.a[ChangeNo(j) + 1] # call.a[ChangeNo(j)]

\* a sign change between samples of unequal size, next to a pair holding an
\* exact zero, which gives no crossing
C21_Witness ==
    /\ ZeroCrossingsCalled
    /\ Len(call.a) = 3
    /\ call.a[3] = Zero
    /\ call.a[1] = <<1, 50>>
    /\ Lt(call.a[2], Zero)
    /\ Len(ret[2].t0) = 1

\* the loop of filterClosePoints on the arguments of the call
LoopOfCall == FilterLoop(call.t, call.a, call.k, 0)

\* the loop was entered: two points or more were handed over
LoopEntered == Called("filterClosePoints") /\ Len(call.t) > 1

\* C22: the de-duplication loop ends on the break of a pass that removed no
\* point and never on the cap of 10 passes; the list the first pass produces is
\* left whole by a further pass, so at most two passes run.
C22_StableAfterFirstPass ==
    LoopEntered =>
        /\ ~LoopOfCall.capped
        /\ LoopOfCall.passes \in 1..2
        /\ LoopOfCall.passes < MaxPasses
        /\ Sweep(Sweep(call.t, call.a, call.k).t, Sweep(call.t, call.a, call.k).y, call.k)
               = Sweep(call.t, call.a, call.k)
        /\ ret[1] = Filtered(Sweep(call.t, call.a, call.k))

\* a list that is not ascending lost points in the first pass, and the second
\* pass ended the loop
C22_Witness ==
    /\ LoopEntered
    /\ ~Ascending(call.t)
    /\ Len(call.t) = 4
    /\ Len(ret[1].filteredT0) = 2
    /\ LoopOfCall.passes = 2

\* the count of samples the baseline is taken over: the leading
\* max(20, floor(0.05 * n)), or all n when there are fewer
HeadTaken(n) == IF HeadCount(n) < n THEN HeadCount(n) ELSE n

\* the arithmetic mean of the first k samples
MeanOfHead(arr, k) == Div(SumFirst(arr, k), Num(k))

\* C23: the baseline of the detector is the arithmetic mean of the samples it
\* is taken over: the leading max(20, floor(0.05 * n)) smoothed samples, or all n
\* of them when the signal is shorter.
C23_BaselineIsMean ==
    JumpCalled =>
        Baseline(JumpSmooth(call.a)) = MeanOfHead(JumpSmooth(call.a), HeadTaken(Len(call.a)))

\* three samples at 1: their mean is 1, the baseline computed is 3/20
C23_Scenario ==
    /\ JumpCalled
    /\ call.a = <<One, One, One>>
    /\ JumpSmooth(call.a) = call.a
    /\ Baseline(JumpSmooth(call.a)) = <<3, 20>>

\* the 0-based indices k with smooth[k] <= baseline - 0.15 * amplitude
AtOrBelow(smooth, baseline, amplitude) ==
    {k \in 0..(Len(smooth) - 1) :
        Le(At(smooth, k), Sub(baseline, Mul(amplitude, <<3, 20>>)))}

LeastOf(S) == CHOOSE k \in S : \A j \in S : k <= j

\* the onset for a positive amplitude: the set is not empty and the time
\* returned is that of its least index
OnsetByThreshold(smooth, below) ==
    /\ below # {}
    /\ ret[1].found
    /\ ret[1].time = At(call.t, LeastOf(below))

\* the onset otherwise: the index of the derivative search
OnsetByDerivative(smooth) ==
    /\ ret[1].found
    /\ ret[1].time = At(call.t, findJumpByDerivative(call.t, smooth))

OnsetFor(smooth, baseline, amplitude) ==
    IF Gt(amplitude, Zero)
    THEN OnsetByThreshold(smooth, AtOrBelow(smooth, baseline, amplitude))
    ELSE OnsetByDerivative(smooth)

OnsetOf(smooth) == OnsetFor(smooth, Baseline(smooth), AmplitudeOf(smooth))

\* C24: with a positive amplitude a sample at or below
\* baseline - 0.15 * amplitude exists, the onset is the least index of such a
\* sample and the derivative search is not used; with an amplitude that is not
\* positive the onset is the one the derivative search gives.
C24_ThresholdScan == JumpCalled => OnsetOf(JumpSmooth(call.a))

\* the amplitude is positive, the onset is not the first sample, and the
\* derivative search would have given another index
C24_Witness ==
    /\ JumpCalled
    /\ Len(call.a) <= MaxSig
    /\ Gt(AmplitudeOf(JumpSmooth(call.a)), Zero)
    /\ ret[1].time # At(call.t, 0)
    /\ ret[1].time # At(call.t, findJumpByDerivative(call.t, JumpSmooth(call.a)))

\* findJumpByDerivative ran on call.t and call.a; its result is ret[2]
DerivativeCalled == call.fn = "findLargestJumpStart" /\ Len(ret) = 2

\* the slope between the samples i and i + 1 (0-based), over a time step of
\* at least 1e-12
SlopeAt(i) ==
    Div(Sub(At(call.a, i + 1), At(call.a, i)),
        MathMax(Sub(At(call.t, i + 1), At(call.t, i)), TinyDt))

SlopeIndices == 0..(Len(call.a) - 2)

\* the earliest index of maximum absolute slope
PeakIdx ==
    CHOOSE m \in SlopeIndices :
        /\ \A j \in SlopeIndices : Ge(Abs(SlopeAt(m)), Abs(SlopeAt(j)))
        /\ \A j \in 0..(m - 1) : Lt(Abs(SlopeAt(j)), Abs(SlopeAt(m)))

\* the slope at i has the sign of the peak slope and at least 35% of its size
LikePeak(i) ==
    /\ Sgn(SlopeAt(i)) = Sgn(SlopeAt(PeakIdx))
    /\ Ge(Abs(SlopeAt(i)), Mul(Abs(SlopeAt(PeakIdx)), <<7, 20>>))

\* C25: the index s the derivative search returns satisfies 0 <= s <= m for m
\* the earliest index of maximum absolute slope, every slope at s..m has the
\* sign of the peak slope and at least 35% of its magnitude, and s = 0 or the
\* slope at s - 1 has another sign or a smaller magnitude than that.
C25_DerivativeOnset ==
    DerivativeCalled =>
        /\ ret[2] \in 0..PeakIdx
        /\ \A i \in ret[2]..PeakIdx : LikePeak(i)
        /\ ret[2] = 0 \/ ~LikePeak(ret[2] - 1)

\* the search walked back from the peak and stopped before the first slope
C25_Witness ==
    /\ DerivativeCalled
    /\ ret[2] > 0
    /\ ret[2] < PeakIdx
    /\ SlopeAt(ret[2] - 1) # Zero

\* the span of time from w samples before index k to w samples after it,
\* within the n samples, for w = max(20, floor(0.02 n))
SpanAround(k, n, w) == Sub(At(call.t, Min(n - 1, k + w)), At(call.t, Max(0, k - w)))

WindowAround(k, n) ==
    IF Gt(SpanAround(k, n, Max(20, (2 * n) \div 100)), Zero)
    THEN SpanAround(k, n, Max(20, (2 * n) \div 100))
    ELSE <<1000, 1>>

HintReturned == JumpCalled /\ ret[1].found

\* C26: every hint the jump-edge detector returns has time = t[k] for an index
\* k in 0..n-1 and a window > 0 equal to t[min(n-1, k+w)] - t[max(0, k-w)]
\* with w = max(20, floor(0.02 n)), or to 1e-6 when that span is not positive.
C26_HintTimeAndWindow ==
    HintReturned =>
        \E k \in 0..(Len(call.a) - 1) :
            /\ ret[1].time = At(call.t, k)
            /\ ret[1].window = WindowAround(k, Len(call.a))
            /\ Gt(ret[1].window, Zero)

\* a hint inside a long signal: 2% of the samples on either side of the onset
C26_Witness ==
    /\ HintReturned
    /\ Len(call.a) > 2000
    /\ ret[1].window = Num(2 * ((2 * Len(call.a)) \div 100))

SelectedCount == Len(NearRootFrom(0))

\* C27: every element of the localized-derivative series is a number, whatever
\* the count of samples inside the root windows, 1, 2 and 3 included.
C27_EveryElementANumber ==
    Returned => \A i \in 0..(Len(result.dudt_interf) - 1) : IsNumber(At(result.dudt_interf, i))

\* one to three samples are selected and every one of them holds undefined
C27_Scenario ==
    /\ Returned
    /\ SelectedCount \in 1..3
    /\ Len(result.dudt_interf) = Len(t)
    /\ \A i \in 0..(Len(t) - 1) : NearRoot(i) => ~IsNumber(At(result.dudt_interf, i))

\* the component has rendered with both offsets 0 and no minimum time set
RenderedPlain ==
    /\ call.fn = "ChartComponent"
    /\ Len(ret) = 3
    /\ call.tenzOffset = Zero
    /\ call.interfOffset = Zero
    /\ call.intersectionXMin = Undefined

\* C28: with both Y offsets 0 and no minimum-time override, the list the chart
\* component computes from rawData equals, point for point and in order, the
\* intersectionPoints of the core for the same three sequences.
C28_RecomputeEqualsCore == RenderedPlain => ret[2] = ret[1]

\* the core found an intersection that the component's list does not hold
C28_Scenario ==
    /\ RenderedPlain
    /\ Len(ret[1]) > 0
    /\ ret[2] = <<>>
    /\ Lt(ret[1][1].time, At(call.t, 0))

\* C29: under every interleaving of uploads, apply clicks, their completions
\* and resets, the chart data on display comes from the most recently selected
\* file, and there is none after a reset until a new upload completes: a run
\* that completes after resetFiles or after a newer upload started does not set
\* chartData.
C29_ChartFromCurrentFile ==
    chartData # NoChartData => chartData.file = lastFileRef

\* every run has settled, no file is selected, and chart data is on display
C29_Scenario ==
    /\ runs = {}
    /\ ~loading
    /\ ~applyingSmoothing
    /\ lastFileRef = NoFile
    /\ chartData # NoChartData

\* C30: after any sequence of edits to the window input and the order input,
\* sgWindow is odd, sgWindow >= 3 and 1 <= sgPoly < sgWindow.
C30_SettingsValid ==
    /\ sgWindow % 2 = 1
    /\ sgWindow >= 3
    /\ 1 <= sgPoly
    /\ sgPoly < sgWindow

\* the window was edited down to the order held in state
C30_Scenario ==
    /\ sgWindow = 3
    /\ sgPoly = InitialSgPoly
    /\ runs = {}
    /\ lastFileRef = NoFile

=============================================================================
